---- MODULE Spec2Model ----
(***************************************************************************)
(* Model of the email-threat pipeline of dec25_intern_B_security:          *)
(*   - the job aggregator   (apps/worker/aggregator/main.py)               *)
(*   - the ingest producer  (apps/api/routers/emails.py)                   *)
(*   - the static risk gate (apps/api/services/risk.py)                    *)
(*   - the intent worker    (apps/worker/intent/main.py)                   *)
(* Each component has its own specification over the shared variables:     *)
(*   Spec       aggregator, no infrastructure faults                       *)
(*   SpecIngest ingest producer, two concurrent ingest calls               *)
(*   SpecRisk   evaluate_static_risk over bounded emails                   *)
(*   SpecIntent intent worker loop                                         *)
(*   SpecAnalysis analysis worker loop                                     *)
(*   SpecAnalyzers analyze_urls and poll_ha_report                         *)
(*   SpecAction, SpecActionPermits action worker                           *)
(*   SpecReaper, SpecReaperFair aggregator with its clock and reaper       *)
(***************************************************************************)
EXTENDS Integers, Sequences, FiniteSets, TLC

(***************************************************************************)
(* Bounds                                                                  *)
(***************************************************************************)
\* how often the broker may deliver one stream message (at-least-once)
MaxDeliveries == 2
\* attachments and URLs of an email given to the risk gate
MaxAttachments == 2
MaxUrls == 5
\* emails in the batch of one ingest call
MaxBatch == 2
\* intent-requests on emails:intent
MaxRequests == 2
\* payloads posted to the action worker
MaxActions == 2
\* analysis-requests on emails:analysis
MaxAnalysisRequests == 2
\* concurrent calls of analyze_urls_with_limit
MaxUrlCalls == 2
\* seconds the aggregator's clock runs for
MaxTime == 780

(***************************************************************************)
(* Aggregator: data                                                        *)
(***************************************************************************)
Jobs == {"j1"}

Streams == {"control", "intent_done", "analysis_done"}

\* payload contents the workers may have computed for a job
IntentSamples == {"newsletter", "invoice"}
VerdictSamples == {"malicious", "unknown"}

\* Python None
None == [none |-> TRUE]

\* json.dumps / json.loads: the JSON text of a value is a tagged copy of it
JsonDumps(v) == [json |-> v]
JsonLoads(t) == t.json

\* str(bool).lower() as handle_control applies it to the control's requiresB
StrLower(b) == IF b THEN "true" ELSE "false"

\* a Redis hash is a function from the fields it holds to their values;
\* hgetall of a missing key is the empty mapping
NoState == [f \in {} |-> ""]

\* redis.hset(key, mapping=...): fields of the mapping overwrite, others stay
HSet(old, new) ==
    [f \in (DOMAIN old) \cup (DOMAIN new) |->
        IF f \in DOMAIN new THEN new[f] ELSE old[f]]

\* dict.get(field, default)
Get(state, f, default) == IF f \in DOMAIN state THEN state[f] ELSE default

VARIABLES
    jobInput,       \* per job: the risk-gate result carried by its control and
                    \* the contents of its done payloads (a redelivery carries
                    \* the same payload)
    emailRow,       \* email_events rows by job id
    jobState,       \* Redis hashes job_state:<job_id>
    finalReports,   \* stream job:completed
    delivered,      \* deliveries of each job's message per stream
    acked,          \* acknowledgements per job and stream
    lastOp,         \* what the latest aggregator step did
    riskEmail,      \* the StructuredEmail given to evaluate_static_risk
    riskResult,     \* its return value, once evaluated
    dbRows,         \* email_events rows committed by the ingest producer
    ingest,         \* per ingest_emails call: its locals and position
    published,      \* the producer's xadd calls, in order
    intentRow,      \* the EmailEvent the intent-requests are about
    intentRequest,  \* payload email_id of each message on emails:intent
    intentMsg,      \* per message: new, acked, or pending (read, never acked)
    intentResult,   \* per message: how its handling ended
    intentDeliveries, \* per message: times xreadgroup handed it to the worker
    intentDone,     \* stream emails:intent:done
    USE_REAL_SANDBOX, \* the analysis worker's configuration flag
    analysisRow,    \* the EmailEvent the analysis-requests are about
    analysisRequest, \* payload of each message on emails:analysis
    analysisMsg,    \* per message: new, processed (ack due), acked or pending
    analysisResult, \* per message: how its handling ended
    analysisDone,   \* stream emails:analysis:done
    urlCall,        \* per call of analyze_urls_with_limit: its position and locals
    geminiPermits,  \* free permits of the analysis worker's GEMINI_SEMAPHORE
    haPoll,         \* the call of poll_ha_report: its position and locals
    actionPayload,  \* the UnifiedDecisionPayload of each call of process_action
    actionPc,       \* per call: its position in process_action
    actionLocal,    \* per call: its local variables
    processed_messages,     \* the in-memory idempotency set
    MOVE_MALICIOUS_TO_SPAM, \* the configuration switch read at start-up
    gmailPermits,   \* free permits of GMAIL_SEMAPHORE
    labelCalls,     \* the calls of apply_labels, in order
    now,            \* the aggregator's clock, in seconds
    expireAt,       \* per job: when the key job_state:<job_id> expires
    reaperNext,     \* when cleanup_expired_jobs wakes up next
    stateBorn,      \* per job: when its present state was created
    receivedAt,     \* per job: the received_at the producer put into created_at
    syntheticAt,    \* per job: the created_at of its synthetic state
    procPc,         \* per aggregator process: its position in its done handler
    procState       \* per aggregator process: the state dict it holds

aggVars == <<jobInput, emailRow, jobState, finalReports, delivered, acked, lastOp>>
riskVars == <<riskEmail, riskResult>>

ingestVars == <<dbRows, ingest, published>>

intentVars ==
    <<intentRow, intentRequest, intentMsg, intentResult, intentDeliveries, intentDone>>

actionVars == <<actionPayload, actionPc, actionLocal, processed_messages,
                MOVE_MALICIOUS_TO_SPAM, gmailPermits, labelCalls>>

timeVars == <<now, expireAt, reaperNext, stateBorn, receivedAt, syntheticAt>>

procVars == <<procPc, procState>>

analysisVars == <<USE_REAL_SANDBOX, analysisRow, analysisRequest, analysisMsg,
                  analysisResult, analysisDone>>
analyzerVars == <<urlCall, geminiPermits, haPoll>>
vars == <<aggVars, riskVars, ingestVars, intentVars, actionVars, timeVars, procVars,
          analysisVars, analyzerVars>>

\* a step of one component leaves the other components alone
AggOnly == UNCHANGED <<riskVars, ingestVars, intentVars, actionVars, analysisVars, analyzerVars>>
RiskOnly ==
    UNCHANGED <<aggVars, timeVars, procVars, ingestVars, intentVars, actionVars, analysisVars, analyzerVars>>
IngestOnly ==
    UNCHANGED <<aggVars, timeVars, procVars, riskVars, intentVars, actionVars, analysisVars, analyzerVars>>
IntentOnly ==
    UNCHANGED <<aggVars, timeVars, procVars, riskVars, ingestVars, actionVars, analysisVars, analyzerVars>>
AnalysisOnly ==
    UNCHANGED <<aggVars, timeVars, procVars, riskVars, ingestVars, intentVars, actionVars,
                analyzerVars>>
AnalyzersOnly ==
    UNCHANGED <<aggVars, timeVars, procVars, riskVars, ingestVars, intentVars, actionVars,
                analysisVars>>
ActionOnly ==
    UNCHANGED <<aggVars, timeVars, procVars, riskVars, ingestVars, intentVars, analysisVars, analyzerVars>>
\* an aggregator step of a specification without a clock
Untimed == UNCHANGED <<timeVars, procVars>>

(***************************************************************************)
(* Aggregator: operations                                                  *)
(***************************************************************************)
\* str(bool) as build_email_event writes requiresB into the control payload
PyStr(b) == IF b THEN "True" ELSE "False"

\* str.lower() on the texts that occur
Lower(s) == IF s = "True" THEN "true" ELSE IF s = "False" THEN "false" ELSE s

ControlPayload(j) ==
    [job_id |-> j, requiresB |-> PyStr(jobInput[j].requiresB),
     created_at |-> "received_at"]

IntentDonePayload(j) == [job_id |-> j, intent |-> jobInput[j].intent]
SandboxDonePayload(j) == [job_id |-> j, verdict |-> jobInput[j].verdict]

\* mutant of is_job_complete: the sandbox track is never waited for
is_job_complete_intent_only(state) ==
    Lower(Get(state, "intent_received", "false")) = "true"

is_job_complete(state) ==
    LET requires_b == Lower(Get(state, "requiresB", "false")) = "true"
        has_intent == Lower(Get(state, "intent_received", "false")) = "true"
        has_sandbox == Lower(Get(state, "sandbox_received", "false")) = "true"
    IN  IF requires_b THEN has_intent /\ has_sandbox ELSE has_intent

\* state synthesized by a done handler that finds no state
SyntheticState(j, requiresB) ==
    [job_id |-> j, requiresB |-> requiresB, created_at |-> "now",
     intent_received |-> "false", sandbox_received |-> "false"]

\* how finalize_job ends: the session fails, the row is missing, the publish
\* fails, or all four steps run
FinalizeOutcome(j, dbOk, xaddOk) ==
    IF ~dbOk THEN "db_error"
    ELSE IF ~emailRow[j].exists THEN "row_missing"
    ELSE IF ~xaddOk THEN "xadd_error"
    ELSE "ok"

final_payload(j, state) ==
    LET sandbox_data == IF "sandbox" \in DOMAIN state
                        THEN JsonLoads(state["sandbox"]) ELSE None
    IN  [job_id |-> j,
         message_id |-> emailRow[j].message_id,
         intent |-> Get(state, "intent", JsonDumps([empty |-> TRUE])),
         sandbox |-> IF Lower(Get(state, "requiresB", "false")) = "true"
                        /\ sandbox_data # None
                     THEN state["sandbox"]
                     ELSE JsonDumps(None)]

\* mutant of finalize_job: step 4 (delete_state) is left out
finalize_job_keeps_state(j, state, dbOk, xaddOk) ==
    LET outcome == FinalizeOutcome(j, dbOk, xaddOk)
    IN  /\ emailRow' = IF outcome \in {"ok", "xadd_error"}
                       THEN [emailRow EXCEPT ![j].status = "COMPLETED"]
                       ELSE emailRow
        /\ finalReports' = IF outcome = "ok"
                           THEN Append(finalReports, final_payload(j, state))
                           ELSE finalReports
        /\ jobState' = [jobState EXCEPT ![j] = state]

\* mutant of finalize_job: the state is deleted also when the row is missing
finalize_job_deletes_on_abort(j, state, dbOk, xaddOk) ==
    LET outcome == FinalizeOutcome(j, dbOk, xaddOk)
    IN  /\ emailRow' = IF outcome \in {"ok", "xadd_error"}
                       THEN [emailRow EXCEPT ![j].status = "COMPLETED"]
                       ELSE emailRow
        /\ finalReports' = IF outcome = "ok"
                           THEN Append(finalReports, final_payload(j, state))
                           ELSE finalReports
        /\ jobState' = [jobState EXCEPT
                ![j] = IF outcome \in {"ok", "row_missing"} THEN NoState ELSE state]

\* mutant of finalize_job: the final-report is published before the commit
finalize_job_publishes_first(j, state, dbOk, xaddOk) ==
    LET outcome == FinalizeOutcome(j, dbOk, xaddOk)
    IN  /\ emailRow' = IF outcome \in {"ok", "xadd_error"}
                       THEN [emailRow EXCEPT ![j].status = "COMPLETED"]
                       ELSE emailRow
        /\ finalReports' = IF outcome \in {"ok", "db_error"}
                           THEN Append(finalReports, final_payload(j, state))
                           ELSE finalReports
        /\ jobState' = [jobState EXCEPT ![j] = IF outcome = "ok" THEN NoState ELSE state]

\* finalize_job(redis, job_id, state), called with the state just saved
finalize_job(j, state, dbOk, xaddOk) ==
    LET outcome == FinalizeOutcome(j, dbOk, xaddOk)
    IN  /\ emailRow' = IF outcome \in {"ok", "xadd_error"}
                       THEN [emailRow EXCEPT ![j].status = "COMPLETED"]
                       ELSE emailRow
        /\ finalReports' = IF outcome = "ok"
                           THEN Append(finalReports, final_payload(j, state))
                           ELSE finalReports
        /\ jobState' = [jobState EXCEPT ![j] = IF outcome = "ok" THEN NoState ELSE state]

\* run_loop's bookkeeping around a handler that returned normally
Deliver(j, stream) ==
    /\ delivered[j][stream] < MaxDeliveries
    /\ delivered' = [delivered EXCEPT ![j][stream] = @ + 1]
    /\ acked' = [acked EXCEPT ![j][stream] = @ + 1]

handle_control(j) ==
    LET payload == ControlPayload(j)
        state == [job_id |-> payload.job_id,
                  requiresB |-> Lower(payload.requiresB),
                  created_at |-> payload.created_at,
                  intent_received |-> "false",
                  sandbox_received |-> "false"]
    IN  /\ Deliver(j, "control")
        /\ jobState' = [jobState EXCEPT ![j] = HSet(@, state)]
        /\ lastOp' = [kind |-> "control", job |-> j, saved |-> state,
                      complete |-> FALSE, outcome |-> "none"]
        /\ UNCHANGED <<jobInput, emailRow, finalReports>>
        /\ AggOnly

\* the part handle_intent_done and handle_sandbox_done share: store the
\* result, save, check completion, finalize
DoneHandler(j, stream, default_requiresB, field, flag, payload, dbOk, xaddOk) ==
    LET loaded == jobState[j]
        state0 == IF loaded = NoState
                  THEN SyntheticState(j, default_requiresB) ELSE loaded
        state == HSet(state0, (field :> JsonDumps(payload)) @@ (flag :> "true"))
        complete == is_job_complete(state)
    IN  /\ Deliver(j, stream)
        /\ IF complete
           THEN finalize_job(j, state, dbOk, xaddOk)
           ELSE /\ jobState' = [jobState EXCEPT ![j] = state]
                /\ UNCHANGED <<emailRow, finalReports>>
        /\ lastOp' = [kind |-> stream, job |-> j, saved |-> state,
                      complete |-> complete,
                      outcome |-> IF complete
                                  THEN FinalizeOutcome(j, dbOk, xaddOk) ELSE "none"]
        /\ UNCHANGED jobInput
        /\ AggOnly

handle_intent_done(j, dbOk, xaddOk) ==
    DoneHandler(j, "intent_done", "false", "intent", "intent_received",
                IntentDonePayload(j), dbOk, xaddOk)

\* an analysis-done exists only for a job whose analysis-request was published
handle_sandbox_done(j, dbOk, xaddOk) ==
    /\ jobInput[j].requiresB
    /\ DoneHandler(j, "analysis_done", "true", "sandbox", "sandbox_received",
                   SandboxDonePayload(j), dbOk, xaddOk)

\* the key's TTL runs out (save_state's expire) or the reaper deletes the state
ExpireState(j) ==
    /\ jobState[j] # NoState
    /\ jobState' = [jobState EXCEPT ![j] = NoState]
    /\ lastOp' = [kind |-> "expire", job |-> j, saved |-> NoState,
                  complete |-> FALSE, outcome |-> "none"]
    /\ UNCHANGED <<jobInput, emailRow, finalReports, delivered, acked>>
    /\ AggOnly

InitAgg ==
    /\ jobInput \in [Jobs -> [requiresB : BOOLEAN, intent : IntentSamples,
                              verdict : VerdictSamples]]
    /\ emailRow \in [Jobs -> [exists : BOOLEAN, status : {"PROCESSING"},
                              message_id : {"m1"}]]
    /\ jobState = [j \in Jobs |-> NoState]
    /\ finalReports = <<>>
    /\ delivered = [j \in Jobs |-> [s \in Streams |-> 0]]
    /\ acked = [j \in Jobs |-> [s \in Streams |-> 0]]
    /\ lastOp = [kind |-> "init", job |-> "", saved |-> NoState,
                 complete |-> FALSE, outcome |-> "none"]

(***************************************************************************)
(* Static risk gate (apps/api/services/risk.py)                            *)
(***************************************************************************)
RISKY_EXTENSIONS == {".exe", ".scr", ".vbs", ".js", ".bat", ".iso", ".dll", ".ps1"}

FilenameSamples == {"resume.pdf", "SETUP.EXE", "run.js", "invoice.zip"}
MimeSamples == {"application/zip", "application/pdf"}
UrlSample == "https://example.com"

\* os.path.splitext(filename)[1].lower() on the sample file names
SplitextLower(filename) ==
    CASE filename = "resume.pdf" -> ".pdf"
      [] filename = "SETUP.EXE" -> ".exe"
      [] filename = "run.js" -> ".js"
      [] filename = "invoice.zip" -> ".zip"
      [] OTHER -> ""

Min(a, b) == IF a < b THEN a ELSE b

\* the loop over payload.attachments, from attachment i on
RECURSIVE AttachmentCheck(_, _, _)
AttachmentCheck(atts, i, acc) ==
    IF i > Len(atts) THEN acc
    ELSE LET att == atts[i]
             ext == SplitextLower(att.filename)
         IN  IF ext \in RISKY_EXTENSIONS
             THEN AttachmentCheck(atts, i + 1,
                    [score |-> acc.score + 70,
                     reasons |-> Append(acc.reasons, "Risky extension"),
                     should_sandbox |-> TRUE])
             ELSE IF att.mime_type = "application/zip"
             THEN AttachmentCheck(atts, i + 1,
                    [score |-> acc.score + 30,
                     reasons |-> Append(acc.reasons, "Archive attachment"),
                     should_sandbox |-> TRUE])
             ELSE AttachmentCheck(atts, i + 1, acc)

\* mutant of evaluate_static_risk: the score is not clamped to 100
evaluate_static_risk_unclamped(payload) ==
    LET a == AttachmentCheck(payload.attachments, 1,
                [score |-> 0, reasons |-> <<>>, should_sandbox |-> FALSE])
        n == Len(payload.extracted_urls)
        score == a.score + (IF n > 0 THEN 5 ELSE 0) + (IF n > 3 THEN 20 ELSE 0)
    IN  [should_sandbox |-> a.should_sandbox \/ n > 3 \/ score > 50,
         reason |-> a.reasons,
         score |-> score]

evaluate_static_risk(payload) ==
    LET a == AttachmentCheck(payload.attachments, 1,
                [score |-> 0, reasons |-> <<>>, should_sandbox |-> FALSE])
        n == Len(payload.extracted_urls)
        u == IF n > 0
             THEN IF n > 3
                  THEN [score |-> a.score + 5 + 20,
                        reasons |-> Append(a.reasons, "Many URLs"),
                        should_sandbox |-> TRUE]
                  ELSE [a EXCEPT !.score = a.score + 5]
             ELSE a
        score == Min(u.score, 100)
    IN  [should_sandbox |-> IF score > 50 THEN TRUE ELSE u.should_sandbox,
         reason |-> IF u.reasons = <<>> THEN <<"Low static risk">> ELSE u.reasons,
         score |-> score]

SeqsUpTo(S, n) == UNION {[1..k -> S] : k \in 0..n}

AttachmentSamples == [filename : FilenameSamples, mime_type : MimeSamples]

NotEvaluated == [should_sandbox |-> FALSE, reason |-> <<>>, score |-> -1]

InitRisk ==
    /\ riskEmail \in [attachments : SeqsUpTo(AttachmentSamples, MaxAttachments),
                       extracted_urls : SeqsUpTo({UrlSample}, MaxUrls)]
    /\ riskResult = NotEvaluated

RiskIdle ==
    /\ riskEmail = [attachments |-> <<>>, extracted_urls |-> <<>>]
    /\ riskResult = NotEvaluated

EvaluateRisk ==
    /\ riskResult = NotEvaluated
    /\ riskResult' = evaluate_static_risk(riskEmail)
    /\ UNCHANGED riskEmail
    /\ RiskOnly

STATE_TTL == 600
CLEANUP_INTERVAL == 60
NoExpiry == -1

TimeIdle ==
    /\ now = 0
    /\ expireAt = [j \in Jobs |-> NoExpiry]
    /\ reaperNext = CLEANUP_INTERVAL
    /\ stateBorn = [j \in Jobs |-> 0]
    /\ receivedAt = [j \in Jobs |-> 0]
    /\ syntheticAt = [j \in Jobs |-> 0]

\* the aggregator processes of the concurrent specification
Procs == {"p1", "p2"}

ProcIdle ==
    /\ procPc = [p \in Procs |-> "start"]
    /\ procState = [p \in Procs |-> NoState]

AggIdle ==
    /\ TimeIdle
    /\ ProcIdle
    /\ jobInput = [j \in Jobs |->
                    [requiresB |-> FALSE, intent |-> "newsletter", verdict |-> "unknown"]]
    /\ emailRow = [j \in Jobs |->
                    [exists |-> TRUE, status |-> "PROCESSING", message_id |-> "m1"]]
    /\ jobState = [j \in Jobs |-> NoState]
    /\ finalReports = <<>>
    /\ delivered = [j \in Jobs |-> [s \in Streams |-> 0]]
    /\ acked = [j \in Jobs |-> [s \in Streams |-> 0]]
    /\ lastOp = [kind |-> "init", job |-> "", saved |-> NoState,
                 complete |-> FALSE, outcome |-> "none"]

(***************************************************************************)
(* Ingest producer (apps/api/routers/emails.py)                            *)
(***************************************************************************)
\* the two callers of ingest_emails and the status each passes
Callers == {"sync", "background"}
CallStatus(p) == IF p = "sync" THEN "PENDING" ELSE "PROCESSING"

MessageIds == {"m1", "m2"}

\* the parsed email behind a provider message id
EmailOf(mid) ==
    IF mid = "m1"
    THEN [message_id |-> mid, attachments |-> <<>>, extracted_urls |-> <<UrlSample>>]
    ELSE [message_id |-> mid,
          attachments |-> <<[filename |-> "SETUP.EXE", mime_type |-> "application/pdf"]>>,
          extracted_urls |-> <<>>]

\* email_exists(session, message_id): the committed rows and the rows this
\* session has added (flushed before the query)
email_exists(p, message_id) ==
    \/ \E r \in dbRows : r.message_id = message_id
    \/ \E n \in DOMAIN ingest[p].session : ingest[p].session[n].message_id = message_id

\* mutant of downstream_tasks: the intent-request is queued before the control
downstream_tasks_intent_first(job_id, email, should_sandbox) ==
    <<[stream |-> "emails:intent", job |-> job_id, payload |-> [email_id |-> job_id]],
      [stream |-> "emails:job", job |-> job_id,
       payload |-> [job_id |-> job_id, requiresB |-> PyStr(should_sandbox),
                    created_at |-> "received_at"]]>>
    \o (IF should_sandbox
        THEN <<[stream |-> "emails:analysis", job |-> job_id,
                payload |-> [email_id |-> job_id, message_id |-> email.message_id]]>>
        ELSE <<>>)

\* the downstream_tasks list build_email_event returns
downstream_tasks(job_id, email, should_sandbox) ==
    <<[stream |-> "emails:job", job |-> job_id,
       payload |-> [job_id |-> job_id, requiresB |-> PyStr(should_sandbox),
                    created_at |-> "received_at"]],
      [stream |-> "emails:intent", job |-> job_id, payload |-> [email_id |-> job_id]]>>
    \o (IF should_sandbox
        THEN <<[stream |-> "emails:analysis", job |-> job_id,
                payload |-> [email_id |-> job_id, message_id |-> email.message_id]]>>
        ELSE <<>>)

build_email_event(job_id, email, status) ==
    LET should_sandbox == evaluate_static_risk(email).should_sandbox
    IN  [email_event |-> [id |-> job_id, message_id |-> email.message_id,
                          status |-> status,
                          sandboxed |-> IF should_sandbox THEN TRUE ELSE FALSE],
         tasks |-> downstream_tasks(job_id, email, should_sandbox)]

\* one turn of the loop over emails, up to the next await; after the last
\* email the call returns 0 or goes on to the commit
IngestLoop(p) ==
    LET c == ingest[p]
        email == EmailOf(c.emails[c.i])
        last == c.i = Len(c.emails)
    IN  /\ c.pc = "loop"
        /\ IF email_exists(p, email.message_id)
           THEN ingest' = [ingest EXCEPT ![p] =
                    [c EXCEPT !.skipped = @ + 1, !.i = @ + 1,
                              !.pc = IF last
                                     THEN (IF c.count = 0 THEN "done" ELSE "commit")
                                     ELSE "loop"]]
           ELSE LET built == build_email_event(<<p, c.i>>, email, CallStatus(p))
                IN  ingest' = [ingest EXCEPT ![p] =
                        [c EXCEPT !.session = Append(@, built.email_event),
                                  !.tasks = @ \o built.tasks,
                                  !.count = @ + 1, !.i = @ + 1,
                                  !.pc = IF last THEN "commit" ELSE "loop"]]
        /\ UNCHANGED <<dbRows, published>>
        /\ IngestOnly

\* mutant of IngestCommit: a failed commit is swallowed and the call goes on
IngestCommit_goes_on(p, ok) ==
    LET c == ingest[p]
    IN  /\ c.pc = "commit"
        /\ dbRows' = IF ok THEN dbRows \cup {c.session[n] : n \in DOMAIN c.session}
                      ELSE dbRows
        /\ ingest' = [ingest EXCEPT ![p].pc = "publish"]
        /\ UNCHANGED published
        /\ IngestOnly

\* await session.commit()
IngestCommit(p, ok) ==
    LET c == ingest[p]
    IN  /\ c.pc = "commit"
        /\ IF ok
           THEN /\ dbRows' = dbRows \cup {c.session[n] : n \in DOMAIN c.session}
                /\ ingest' = [ingest EXCEPT ![p].pc = "publish"]
           ELSE /\ dbRows' = dbRows
                /\ ingest' = [ingest EXCEPT ![p].pc = "failed"]
        /\ UNCHANGED published
        /\ IngestOnly

\* one await redis.xadd(stream, payload) of the loop over downstream_tasks
IngestPublish(p, ok) ==
    LET c == ingest[p]
    IN  /\ c.pc = "publish"
        /\ IF ok
           THEN /\ published' = Append(published, c.tasks[c.k])
                /\ ingest' = [ingest EXCEPT ![p] =
                        [c EXCEPT !.k = @ + 1,
                                  !.pc = IF c.k = Len(c.tasks) THEN "done" ELSE "publish"]]
           ELSE /\ published' = published
                /\ ingest' = [ingest EXCEPT ![p].pc = "failed"]
        /\ UNCHANGED dbRows
        /\ IngestOnly

Batches == SeqsUpTo(MessageIds, MaxBatch) \ {<<>>}

InitIngest ==
    /\ dbRows = {}
    /\ ingest \in [Callers -> [emails : Batches, i : {1}, session : {<<>>},
                               tasks : {<<>>}, k : {1}, count : {0}, skipped : {0},
                               pc : {"loop"}]]
    /\ published = <<>>

IngestIdle ==
    /\ dbRows = {}
    /\ ingest = [p \in Callers |->
                    [emails |-> <<"m1">>, i |-> 1, session |-> <<>>, tasks |-> <<>>,
                     k |-> 1, count |-> 0, skipped |-> 0, pc |-> "loop"]]
    /\ published = <<>>

Loop == \E p \in Callers : IngestLoop(p)
Commit == \E p \in Callers : IngestCommit(p, TRUE)
Publish == \E p \in Callers : IngestPublish(p, TRUE)

NextIngest == Loop \/ Commit \/ Publish

(***************************************************************************)
(* Intent worker (apps/worker/intent/main.py)                              *)
(***************************************************************************)
IntentTaxonomy ==
    {"meeting_request", "task_request", "follow_up", "invoice", "payment",
     "support", "sales", "newsletter", "spam", "personal", "phishing",
     "malware", "social_engineering", "bec_fraud", "reconnaissance", "unknown"}

RISK_MAPPING(intent) ==
    CASE intent = "phishing" -> 95
      [] intent = "malware" -> 98
      [] intent = "social_engineering" -> 90
      [] intent = "bec_fraud" -> 95
      [] intent = "reconnaissance" -> 75
      [] intent = "spam" -> 60
      [] intent = "invoice" -> 40
      [] intent = "payment" -> 45
      [] intent = "sales" -> 30
      [] intent = "meeting_request" -> 15
      [] intent = "task_request" -> 15
      [] intent = "follow_up" -> 10
      [] intent = "support" -> 20
      [] intent = "newsletter" -> 25
      [] intent = "personal" -> 10
      [] intent = "unknown" -> 50

classify_risk(score) ==
    IF score < 30 THEN "SAFE"
    ELSE IF score < 80 THEN "CAUTIOUS"
    ELSE "THREAT"

\* confidences are tenths: c stands for c/10
ConfidenceGrid == 0..10

\* int(base_score * confidence + (50 * (1 - confidence))) with
\* confidence = final_confidence or 0.5; on tenths the float result is the
\* exact floor
risk_score_of(intent, c) ==
    LET confidence == IF c = 0 THEN 5 ELSE c
    IN  (RISK_MAPPING(intent) * confidence + 50 * (10 - confidence)) \div 10

\* mutant of risk_tier_of: the SAFE threshold is inclusive
risk_tier_of_inclusive(risk_score) ==
    IF risk_score <= 30 THEN "SAFE"
    ELSE IF risk_score < 80 THEN "CAUTIOUS" ELSE "THREAT"

\* the tier process_email stores with the score (its inline conditional)
risk_tier_of(risk_score) ==
    IF risk_score < 30 THEN "SAFE"
    ELSE IF risk_score < 80 THEN "CAUTIOUS" ELSE "THREAT"

NoIntent == "None"
NoScore == -1

\* what intent_agent.ainvoke does: raises, or returns final_intent (possibly
\* None) and final_confidence
AnalyzerResults ==
    {[raises |-> TRUE, final_intent |-> NoIntent, final_confidence |-> 0]}
    \cup [raises : {FALSE}, final_intent : IntentTaxonomy \cup {NoIntent},
          final_confidence : ConfidenceGrid]

\* mutant of process_email: an analyzer exception leaves the status alone
process_email_keeps_status(row, result) ==
    IF result.raises
    THEN [row |-> row, ok |-> FALSE]
    ELSE LET scored == result.final_intent # NoIntent
                         /\ result.final_intent \in IntentTaxonomy
             risk_score == risk_score_of(result.final_intent, result.final_confidence)
         IN  [row |-> [row EXCEPT
                        !.intent = result.final_intent,
                        !.intent_confidence = result.final_confidence,
                        !.risk_score = IF scored THEN risk_score ELSE @,
                        !.risk_tier = IF scored THEN risk_tier_of(risk_score) ELSE @,
                        !.status = "COMPLETED"],
              ok |-> TRUE]

\* process_email(session, email, ...): the row it leaves and its return value
process_email(row, result) ==
    IF result.raises
    THEN [row |-> [row EXCEPT !.status = "FAILED"], ok |-> FALSE]
    ELSE LET scored == result.final_intent # NoIntent
                         /\ result.final_intent \in IntentTaxonomy
             risk_score == risk_score_of(result.final_intent, result.final_confidence)
         IN  [row |-> [row EXCEPT
                        !.intent = result.final_intent,
                        !.intent_confidence = result.final_confidence,
                        !.risk_score = IF scored THEN risk_score ELSE @,
                        !.risk_tier = IF scored THEN risk_tier_of(risk_score) ELSE @,
                        !.status = "COMPLETED"],
              ok |-> TRUE]

\* email_id strings that are a UUID
ValidIds == {"e1"}

\* select(EmailEvent).where(EmailEvent.id == email_id_str) when the string is
\* no UUID: the statement raises in the driver, or matches no row
QueryOutcomes == {"raises", "no_row"}

\* one pass of run_loop's body over message n of emails:intent; xreadgroup
\* with ">" hands over only messages never delivered to the group
HandleIntentRequest(n, result) ==
    LET email_id_str == intentRequest[n]
    IN  /\ intentMsg[n] = "new"
        /\ intentDeliveries' = [intentDeliveries EXCEPT ![n] = @ + 1]
        /\ IF email_id_str = ""
           THEN /\ intentMsg' = [intentMsg EXCEPT ![n] = "acked"]
                /\ intentResult' = [intentResult EXCEPT ![n] = "invalid_payload"]
                /\ UNCHANGED intentRow
           ELSE IF email_id_str \notin ValidIds
           THEN \E query \in QueryOutcomes :
                /\ intentMsg' = [intentMsg EXCEPT
                        ![n] = IF query = "raises" THEN "pending" ELSE "acked"]
                /\ intentResult' = [intentResult EXCEPT
                        ![n] = IF query = "raises" THEN "query_error" ELSE "not_found"]
                /\ UNCHANGED intentRow
           ELSE IF ~intentRow.exists
           THEN /\ intentMsg' = [intentMsg EXCEPT ![n] = "acked"]
                /\ intentResult' = [intentResult EXCEPT ![n] = "not_found"]
                /\ UNCHANGED intentRow
           ELSE LET done == process_email(intentRow, result)
                IN  /\ intentRow' = done.row
                    /\ intentMsg' = [intentMsg EXCEPT
                            ![n] = IF done.ok THEN "acked" ELSE "pending"]
                    /\ intentResult' = [intentResult EXCEPT
                            ![n] = IF done.ok THEN "success" ELSE "failed"]
        /\ UNCHANGED <<intentRequest, intentDone>>
        /\ IntentOnly

IntentMessages == 1..MaxRequests

InitIntent ==
    /\ intentRow \in [exists : BOOLEAN, id : {"e1"}, status : {"PENDING", "PROCESSING"},
                       intent : {NoIntent}, intent_confidence : {0},
                       risk_score : {NoScore}, risk_tier : {"None"}]
    /\ intentRequest \in [IntentMessages -> {"e1", "", "not-a-uuid"}]
    /\ intentMsg = [n \in IntentMessages |-> "new"]
    /\ intentResult = [n \in IntentMessages |-> "none"]
    /\ intentDeliveries = [n \in IntentMessages |-> 0]
    /\ intentDone = <<>>

IntentIdle ==
    /\ intentRow = [exists |-> TRUE, id |-> "e1", status |-> "PROCESSING",
                    intent |-> NoIntent, intent_confidence |-> 0,
                    risk_score |-> NoScore, risk_tier |-> "None"]
    /\ intentRequest = [n \in IntentMessages |-> "e1"]
    /\ intentMsg = [n \in IntentMessages |-> "new"]
    /\ intentResult = [n \in IntentMessages |-> "none"]
    /\ intentDeliveries = [n \in IntentMessages |-> 0]
    /\ intentDone = <<>>

IntentRequest ==
    \E n \in IntentMessages : \E result \in AnalyzerResults :
        HandleIntentRequest(n, result)

NextIntent == IntentRequest

(***************************************************************************)
(* Action worker (apps/worker/action/main.py, gmail_labels.py)             *)
(***************************************************************************)
GMAIL_SEMAPHORE == 5

\* SandboxResult.verdict
SandboxVerdicts == {"malicious", "suspicious", "clean", "unknown"}

\* verdict strings given to the label functions
VerdictStrings == SandboxVerdicts \cup {"safe", "MALICIOUS", "Clean", "benign", ""}

\* str.lower() on the verdict strings
VerdictLower(verdict) ==
    CASE verdict = "MALICIOUS" -> "malicious"
      [] verdict = "Clean" -> "clean"
      [] OTHER -> verdict

NoLabel == "none"

\* VERDICT_TO_LABEL.get(key), NoLabel standing for a missing key
VERDICT_TO_LABEL(key) ==
    CASE key = "malicious" -> "MailShield/MALICIOUS"
      [] key = "suspicious" -> "MailShield/CAUTIOUS"
      [] key = "clean" -> "MailShield/SAFE"
      [] key = "safe" -> "MailShield/SAFE"
      [] OTHER -> NoLabel

\* mutant of get_label_for_verdict: the verdict is looked up as given
get_label_for_verdict_exact_case(verdict) ==
    IF VERDICT_TO_LABEL(verdict) # NoLabel
    THEN VERDICT_TO_LABEL(verdict) ELSE "MailShield/CAUTIOUS"

get_label_for_verdict(verdict) ==
    IF VERDICT_TO_LABEL(VerdictLower(verdict)) # NoLabel
    THEN VERDICT_TO_LABEL(VerdictLower(verdict)) ELSE "MailShield/CAUTIOUS"

\* the label_name apply_labels chooses
apply_labels_label_name(verdict) ==
    LET label_name == VERDICT_TO_LABEL(VerdictLower(verdict))
    IN  IF label_name = NoLabel THEN "MailShield/CAUTIOUS" ELSE label_name

\* what analyze_urls can return for a non-empty URL list
GeminiVerdicts == {"malicious", "safe", "suspicious"}

Actions == 1..MaxActions
ActionMessageIds == {"m1", "m2"}
NoSandbox == "None"

NoLocals ==
    [original_verdict |-> "", final_verdict |-> "", ai_used |-> FALSE,
     move_to_spam |-> FALSE, label_applied |-> ""]

NoPayload == [message_id |-> "", sandbox_result |-> NoSandbox, extracted_urls |-> <<>>]

ActionPayloads ==
    [message_id : ActionMessageIds,
     sandbox_result : SandboxVerdicts \cup {NoSandbox},
     extracted_urls : {<<>>, <<UrlSample>>}]

\* mutant of processed_messages_add: the message id is not remembered
processed_messages_add_nothing(processed, message_id) == processed

\* processed_messages.add(message_id)
processed_messages_add(processed, message_id) == processed \cup {message_id}

\* the verdict process_action starts from
original_verdict_of(payload) ==
    IF payload.sandbox_result # NoSandbox THEN payload.sandbox_result ELSE "clean"

\* process_action from its entry to its first suspension point
ActionBegin(n, payload) ==
    LET message_id == payload.message_id
        original_verdict == original_verdict_of(payload)
    IN  /\ actionPc[n] = "new"
        /\ actionPayload' = [actionPayload EXCEPT ![n] = payload]
        /\ IF message_id \in processed_messages
           THEN /\ actionPc' = [actionPc EXCEPT ![n] = "skipped"]
                /\ actionLocal' = [actionLocal EXCEPT ![n] =
                        [original_verdict |-> "skipped", final_verdict |-> "skipped",
                         ai_used |-> FALSE, move_to_spam |-> FALSE,
                         label_applied |-> "none"]]
                /\ UNCHANGED processed_messages
           ELSE /\ processed_messages' = processed_messages_add(processed_messages, message_id)
                /\ IF original_verdict = "unknown" /\ payload.extracted_urls # <<>>
                   THEN /\ actionPc' = [actionPc EXCEPT ![n] = "gemini"]
                        /\ actionLocal' = [actionLocal EXCEPT ![n] =
                                [NoLocals EXCEPT !.original_verdict = original_verdict,
                                                 !.final_verdict = original_verdict]]
                   ELSE /\ actionPc' = [actionPc EXCEPT ![n] = "label"]
                        /\ actionLocal' = [actionLocal EXCEPT ![n] =
                                [NoLocals EXCEPT
                                    !.original_verdict = original_verdict,
                                    !.final_verdict = IF original_verdict = "unknown"
                                                      THEN "suspicious"
                                                      ELSE original_verdict]]
        /\ UNCHANGED <<MOVE_MALICIOUS_TO_SPAM, gmailPermits, labelCalls>>
        /\ ActionOnly

\* the Gemini fallback returns
ActionGemini(n, ai_verdict) ==
    /\ actionPc[n] = "gemini"
    /\ actionLocal' = [actionLocal EXCEPT ![n].final_verdict = ai_verdict,
                                          ![n].ai_used = TRUE]
    /\ actionPc' = [actionPc EXCEPT ![n] = "label"]
    /\ UNCHANGED <<actionPayload, processed_messages, MOVE_MALICIOUS_TO_SPAM,
                   gmailPermits, labelCalls>>
    /\ ActionOnly

\* mutant of ActionLabelStart: the provider is called without a permit
ActionLabelStart_no_permit(n) ==
    LET final_verdict == actionLocal[n].final_verdict
    IN  /\ actionPc[n] = "label"
        /\ actionLocal' = [actionLocal EXCEPT
                ![n].move_to_spam = MOVE_MALICIOUS_TO_SPAM /\ final_verdict = "malicious",
                ![n].label_applied = get_label_for_verdict(final_verdict)]
        /\ actionPc' = [actionPc EXCEPT ![n] = "labelling"]
        /\ UNCHANGED <<actionPayload, processed_messages, MOVE_MALICIOUS_TO_SPAM, labelCalls,
                       gmailPermits>>
        /\ ActionOnly

\* move_to_spam and label_applied are computed, GMAIL_SEMAPHORE is acquired
ActionLabelStart(n) ==
    LET final_verdict == actionLocal[n].final_verdict
    IN  /\ actionPc[n] = "label"
        /\ gmailPermits > 0
        /\ gmailPermits' = gmailPermits - 1
        /\ actionLocal' = [actionLocal EXCEPT
                ![n].move_to_spam = MOVE_MALICIOUS_TO_SPAM /\ final_verdict = "malicious",
                ![n].label_applied = get_label_for_verdict(final_verdict)]
        /\ actionPc' = [actionPc EXCEPT ![n] = "labelling"]
        /\ UNCHANGED <<actionPayload, processed_messages, MOVE_MALICIOUS_TO_SPAM, labelCalls>>
        /\ ActionOnly

LabelOutcomes == {"ok", "failed", "raised"}

\* mutant of add_labels: the spam label is added to every message
add_labels_always_spam(label_name, move_to_spam) == <<label_name, "SPAM">>

\* the add_labels and remove_labels lists apply_labels gives to the
\* provider's modify call
add_labels(label_name, move_to_spam) ==
    IF move_to_spam THEN <<label_name, "SPAM">> ELSE <<label_name>>

remove_labels(move_to_spam) == IF move_to_spam THEN <<"INBOX">> ELSE <<>>

\* apply_labels returns True or False, or the block raises; the permit is
\* released
ActionLabelEnd(n, outcome) ==
    LET local == actionLocal[n]
    IN  /\ actionPc[n] = "labelling"
        /\ gmailPermits' = gmailPermits + 1
        /\ labelCalls' = Append(labelCalls,
                [message_id |-> actionPayload[n].message_id,
                 verdict |-> local.final_verdict,
                 label_name |-> apply_labels_label_name(local.final_verdict),
                 move_to_spam |-> local.move_to_spam,
                 add_labels |-> add_labels(apply_labels_label_name(local.final_verdict),
                                           local.move_to_spam),
                 remove_labels |-> remove_labels(local.move_to_spam),
                 outcome |-> outcome])
        /\ actionLocal' = [actionLocal EXCEPT ![n].label_applied =
                CASE outcome = "ok" -> @
                  [] outcome = "failed" -> "FAILED"
                  [] outcome = "raised" -> "ERROR"]
        /\ actionPc' = [actionPc EXCEPT ![n] = "done"]
        /\ UNCHANGED <<actionPayload, processed_messages, MOVE_MALICIOUS_TO_SPAM>>
        /\ ActionOnly

InitAction ==
    /\ actionPayload = [n \in Actions |-> NoPayload]
    /\ actionPc = [n \in Actions |-> "new"]
    /\ actionLocal = [n \in Actions |-> NoLocals]
    /\ processed_messages = {}
    /\ MOVE_MALICIOUS_TO_SPAM \in BOOLEAN
    /\ gmailPermits = GMAIL_SEMAPHORE
    /\ labelCalls = <<>>

ActionIdle ==
    /\ actionPayload = [n \in Actions |-> NoPayload]
    /\ actionPc = [n \in Actions |-> "new"]
    /\ actionLocal = [n \in Actions |-> NoLocals]
    /\ processed_messages = {}
    /\ MOVE_MALICIOUS_TO_SPAM = TRUE
    /\ gmailPermits = GMAIL_SEMAPHORE
    /\ labelCalls = <<>>

Begin == \E n \in Actions : \E payload \in ActionPayloads : ActionBegin(n, payload)
Gemini == \E n \in Actions : \E ai_verdict \in GeminiVerdicts : ActionGemini(n, ai_verdict)
LabelStart == \E n \in Actions : ActionLabelStart(n)
LabelEnd == \E n \in Actions : \E outcome \in LabelOutcomes : ActionLabelEnd(n, outcome)

NextAction == Begin \/ Gemini \/ LabelStart \/ LabelEnd

(***************************************************************************)
(* Analysis worker (apps/worker/analyses/main.py, ai_fallback.py)          *)
(***************************************************************************)
\* what analyze_urls returns after its retries
AnalysisGeminiVerdicts == {"malicious", "safe", "unknown"}

\* what Hybrid Analysis gives: no job id, no report within the polling
\* time, or a report with its verdict
HaOutcomes ==
    {"submit_failed", "timed_out", "malicious", "suspicious",
     "no_specific_threat", "whitelisted", "other"}

\* outcomes of the external analyzers for one request
ScanOutcomes == AnalysisGeminiVerdicts \cup HaOutcomes

calculate_score_from_verdict(verdict) ==
    CASE verdict = "malicious" -> 90
      [] verdict = "suspicious" -> 50
      [] verdict = "clean" -> 10
      [] OTHER -> 0

\* threat_score of a Hybrid Analysis report
ThreatScore(raw_verdict) ==
    CASE raw_verdict = "malicious" -> 100
      [] raw_verdict = "suspicious" -> 60
      [] OTHER -> 0

\* mutant of normalize_ha_report: a missing report is scored 0
normalize_ha_report_unscored(report) ==
    IF report = "timed_out"
    THEN [verdict |-> "unknown", score |-> 0, timed_out |-> TRUE]
    ELSE [timed_out |-> FALSE,
          verdict |-> CASE report = "malicious" -> "malicious"
                        [] report = "suspicious" -> "suspicious"
                        [] report = "no_specific_threat" -> "clean"
                        [] report = "whitelisted" -> "clean"
                        [] OTHER -> "unknown",
          score |-> ThreatScore(report)]

\* normalize_ha_report(report), "timed_out" standing for no report
normalize_ha_report(report) ==
    IF report = "timed_out"
    THEN [verdict |-> "unknown", score |-> 50, timed_out |-> TRUE]
    ELSE [timed_out |-> FALSE,
          verdict |-> CASE report = "malicious" -> "malicious"
                        [] report = "suspicious" -> "suspicious"
                        [] report = "no_specific_threat" -> "clean"
                        [] report = "whitelisted" -> "clean"
                        [] OTHER -> "unknown",
          score |-> ThreatScore(report)]

\* a payload field that is not in the message
Absent == "absent"

\* bool(payload.get(field, [])): a field of a stream message is a string,
\* and the JSON text of an empty list is a non-empty string
Truthy(field) == field # Absent /\ field # ""

\* hybrid_analysis_scan(email_id, payload): raises when attachment_metadata
\* is in the payload (model_validate_json is applied to each character of
\* the JSON text), else scans the first "URL" or reports no content
hybrid_analysis_scan(payload, outcome) ==
    IF Truthy(payload.attachment_metadata)
    THEN [raises |-> TRUE, verdict |-> "None", score |-> 0]
    ELSE IF ~Truthy(payload.extracted_urls)
    THEN [raises |-> FALSE, verdict |-> "clean", score |-> 0]
    ELSE IF outcome = "submit_failed"
    THEN [raises |-> FALSE, verdict |-> "unknown", score |-> 50]
    ELSE [raises |-> FALSE,
          verdict |-> normalize_ha_report(outcome).verdict,
          score |-> normalize_ha_report(outcome).score]

\* the Gemini branch of process_email_analysis
gemini_scan(payload, ai_verdict) ==
    IF Truthy(payload.extracted_urls)
    THEN LET verdict == IF ai_verdict = "safe" THEN "clean" ELSE ai_verdict
         IN  [raises |-> FALSE, verdict |-> verdict,
              score |-> calculate_score_from_verdict(verdict)]
    ELSE [raises |-> FALSE, verdict |-> "clean", score |-> 0]

\* sandbox_result of a row never analysed
NoSandboxResult == "None"

\* process_email_analysis(session, email, payload): the row it leaves, the
\* messages it appends to emails:analysis:done and its return value
process_email_analysis(row, payload, outcome) ==
    LET sandbox_result ==
            IF USE_REAL_SANDBOX
            THEN hybrid_analysis_scan(payload, outcome)
            ELSE gemini_scan(payload, outcome)
    IN  IF sandbox_result.raises
        THEN [row |-> [row EXCEPT !.status = "FAILED"], done |-> <<>>, ok |-> FALSE]
        ELSE [row |-> [row EXCEPT !.sandbox_result = sandbox_result.verdict],
              done |-> <<[job_id |-> row.id,
                          sandbox_score |-> sandbox_result.score,
                          verdict |-> sandbox_result.verdict]>>,
              ok |-> TRUE]

AnalysisMessages == 1..MaxAnalysisRequests

\* one pass of run_loop's body over message n of emails:analysis, up to the
\* return of process_email_analysis
HandleAnalysisRequest(n, outcome) ==
    LET payload == analysisRequest[n]
        email_id_str == payload.email_id
    IN  /\ analysisMsg[n] = "new"
        /\ outcome \in (IF USE_REAL_SANDBOX THEN HaOutcomes ELSE AnalysisGeminiVerdicts)
        /\ IF email_id_str = ""
           THEN /\ analysisMsg' = [analysisMsg EXCEPT ![n] = "acked"]
                /\ analysisResult' = [analysisResult EXCEPT ![n] = "invalid_payload"]
                /\ UNCHANGED <<analysisRow, analysisDone>>
           ELSE IF email_id_str \notin ValidIds
           THEN /\ analysisMsg' = [analysisMsg EXCEPT ![n] = "acked"]
                /\ analysisResult' = [analysisResult EXCEPT ![n] = "malformed"]
                /\ UNCHANGED <<analysisRow, analysisDone>>
           ELSE IF ~analysisRow.exists
           THEN /\ analysisMsg' = [analysisMsg EXCEPT ![n] = "acked"]
                /\ analysisResult' = [analysisResult EXCEPT ![n] = "not_found"]
                /\ UNCHANGED <<analysisRow, analysisDone>>
           ELSE LET r == process_email_analysis(analysisRow, payload, outcome)
                IN  /\ analysisRow' = r.row
                    /\ analysisDone' = analysisDone \o r.done
                    /\ analysisMsg' = [analysisMsg EXCEPT
                            ![n] = IF r.ok THEN "processed" ELSE "pending"]
                    /\ analysisResult' = [analysisResult EXCEPT
                            ![n] = IF r.ok THEN "success" ELSE "failed"]
        /\ UNCHANGED <<USE_REAL_SANDBOX, analysisRequest>>
        /\ AnalysisOnly

\* if processed_successfully: redis.xack(...)
AckAnalysisRequest(n) ==
    /\ analysisMsg[n] = "processed"
    /\ analysisMsg' = [analysisMsg EXCEPT ![n] = "acked"]
    /\ UNCHANGED <<USE_REAL_SANDBOX, analysisRow, analysisRequest, analysisResult,
                   analysisDone>>
    /\ AnalysisOnly

\* the payloads on emails:analysis: the producer writes the JSON text of
\* both lists, other writers may leave a field out
AnalysisPayloads ==
    [email_id : {"e1", "", "not-a-uuid"},
     extracted_urls : {Absent, "[]"},
     attachment_metadata : {Absent, "[]"}]

InitAnalysis ==
    /\ USE_REAL_SANDBOX \in BOOLEAN
    /\ analysisRow \in [exists : BOOLEAN, id : {"e1"}, status : {"PENDING", "PROCESSING"},
                         sandbox_result : {NoSandboxResult}]
    /\ analysisRequest \in [AnalysisMessages -> AnalysisPayloads]
    /\ analysisMsg = [n \in AnalysisMessages |-> "new"]
    /\ analysisResult = [n \in AnalysisMessages |-> "none"]
    /\ analysisDone = <<>>

AnalysisIdle ==
    /\ USE_REAL_SANDBOX = FALSE
    /\ analysisRow = [exists |-> TRUE, id |-> "e1", status |-> "PROCESSING",
                      sandbox_result |-> NoSandboxResult]
    /\ analysisRequest = [n \in AnalysisMessages |->
            [email_id |-> "e1", extracted_urls |-> "[]", attachment_metadata |-> "[]"]]
    /\ analysisMsg = [n \in AnalysisMessages |-> "new"]
    /\ analysisResult = [n \in AnalysisMessages |-> "none"]
    /\ analysisDone = <<>>

AnalysisRequest ==
    \E n \in AnalysisMessages : \E outcome \in ScanOutcomes :
        HandleAnalysisRequest(n, outcome)

AnalysisAck == \E n \in AnalysisMessages : AckAnalysisRequest(n)

NextAnalysis == AnalysisRequest \/ AnalysisAck

(***************************************************************************)
(* The analysis worker's analyzers (apps/worker/analyses/ai_fallback.py    *)
(* analyze_urls, apps/worker/analyses/main.py poll_ha_report)              *)
(***************************************************************************)
GEMINI_SEMAPHORE == 2
max_retries == 3
base_delay == 1

\* delays of poll_ha_report, in seconds
delays == <<30, 60, 60, 60, 60, 60, 60, 60, 60, 60>>

UrlCalls == 1..MaxUrlCalls

\* what chain.ainvoke does in one attempt: a verdict, or an exception
AttemptOutcomes == {"malicious", "safe", "raises"}

NoVerdict == "None"

\* analyze_urls returns: the permit of analyze_urls_with_limit is released
UrlReturn(c, verdict) ==
    /\ urlCall' = [urlCall EXCEPT ![c].pc = "returned", ![c].verdict = verdict]
    /\ geminiPermits' = geminiPermits + 1

\* async with GEMINI_SEMAPHORE, then analyze_urls up to its first attempt
UrlEnter(c) ==
    /\ urlCall[c].pc = "waiting"
    /\ geminiPermits > 0
    /\ IF ~urlCall[c].urls
       THEN /\ urlCall' = [urlCall EXCEPT ![c].pc = "returned", ![c].verdict = "safe"]
            /\ UNCHANGED geminiPermits
       ELSE IF ~urlCall[c].api_key
       THEN /\ urlCall' = [urlCall EXCEPT ![c].pc = "returned", ![c].verdict = "unknown"]
            /\ UNCHANGED geminiPermits
       ELSE /\ urlCall' = [urlCall EXCEPT ![c].pc = "attempt"]
            /\ geminiPermits' = geminiPermits - 1
    /\ UNCHANGED haPoll
    /\ AnalyzersOnly

\* mutant of UrlAttempt: the call gives up one attempt early
UrlAttempt_gives_up_early(c, outcome) ==
    LET call == urlCall[c]
    IN  /\ call.pc = "attempt"
        /\ IF outcome # "raises"
           THEN UrlReturn(c, outcome)
           ELSE IF call.attempt < max_retries - 2
           THEN /\ urlCall' = [urlCall EXCEPT ![c].pc = "sleep"]
                /\ UNCHANGED geminiPermits
           ELSE UrlReturn(c, "unknown")
        /\ UNCHANGED haPoll
        /\ AnalyzersOnly

\* one pass of the body of "for attempt in range(max_retries)", up to the
\* return or to the sleep of the except branch
UrlAttempt(c, outcome) ==
    LET call == urlCall[c]
    IN  /\ call.pc = "attempt"
        /\ IF outcome # "raises"
           THEN UrlReturn(c, outcome)
           ELSE IF call.attempt < max_retries - 1
           THEN /\ urlCall' = [urlCall EXCEPT ![c].pc = "sleep"]
                /\ UNCHANGED geminiPermits
           ELSE UrlReturn(c, "unknown")
        /\ UNCHANGED haPoll
        /\ AnalyzersOnly

\* await asyncio.sleep(base_delay * (2 ** attempt)) ends, the loop goes on
UrlWake(c) ==
    LET call == urlCall[c]
    IN  /\ call.pc = "sleep"
        /\ urlCall' = [urlCall EXCEPT
                ![c].pc = "attempt",
                ![c].slept = Append(@, base_delay * (2 ^ call.attempt)),
                ![c].attempt = @ + 1]
        /\ UNCHANGED <<geminiPermits, haPoll>>
        /\ AnalyzersOnly

\* what one GET of the report gives: 404, a report in another state, an
\* HTTP or transport error, or a report in state SUCCESS with its verdict
PollResponses ==
    {"404", "running", "error", "malicious", "suspicious",
     "no_specific_threat", "whitelisted", "other"}

\* one pass of the body of "for delay in delays": the sleep, the GET, and
\* the return of the report or of None after the last delay
PollStep(resp) ==
    /\ haPoll.pc = "polling"
    /\ LET k == haPoll.polls + 1
           waited == haPoll.waited + delays[k]
       IN  IF resp \notin {"404", "running", "error"}
           THEN haPoll' = [pc |-> "returned", polls |-> k, waited |-> waited,
                           report |-> resp]
           ELSE IF k = Len(delays)
           THEN haPoll' = [pc |-> "returned", polls |-> k, waited |-> waited,
                           report |-> "timed_out"]
           ELSE haPoll' = [haPoll EXCEPT !.polls = k, !.waited = waited]
    /\ UNCHANGED <<urlCall, geminiPermits>>
    /\ AnalyzersOnly

InitAnalyzers ==
    /\ \E api_key \in BOOLEAN :
          urlCall \in [UrlCalls -> [pc : {"waiting"}, urls : BOOLEAN, api_key : {api_key},
                                    attempt : {0}, slept : {<<>>}, verdict : {NoVerdict}]]
    /\ geminiPermits = GEMINI_SEMAPHORE
    /\ haPoll = [pc |-> "polling", polls |-> 0, waited |-> 0, report |-> NoVerdict]

AnalyzersIdle ==
    /\ urlCall = [c \in UrlCalls |->
            [pc |-> "waiting", urls |-> TRUE, api_key |-> TRUE, attempt |-> 0,
             slept |-> <<>>, verdict |-> NoVerdict]]
    /\ geminiPermits = GEMINI_SEMAPHORE
    /\ haPoll = [pc |-> "polling", polls |-> 0, waited |-> 0, report |-> NoVerdict]

Enter == \E c \in UrlCalls : UrlEnter(c)
Attempt == \E c \in UrlCalls : \E outcome \in AttemptOutcomes : UrlAttempt(c, outcome)
Wake == \E c \in UrlCalls : UrlWake(c)
Poll == \E resp \in PollResponses : PollStep(resp)

NextAnalyzers == Enter \/ Attempt \/ Wake \/ Poll

(***************************************************************************)
(* Specifications                                                          *)
(***************************************************************************)
InitAnalyzersSpec ==
    InitAnalyzers /\ AggIdle /\ RiskIdle /\ IngestIdle /\ IntentIdle /\ ActionIdle
        /\ AnalysisIdle

\* the event loop runs every coroutine that can go on: sleeps end, HTTP
\* calls return or time out
SpecAnalyzers ==
    InitAnalyzersSpec /\ [][NextAnalyzers]_vars /\ WF_vars(NextAnalyzers)

InitAnalysisSpec ==
    InitAnalysis /\ AggIdle /\ RiskIdle /\ IngestIdle /\ IntentIdle /\ ActionIdle
        /\ AnalyzersIdle

SpecAnalysis == InitAnalysisSpec /\ [][NextAnalysis]_vars

\* the worker loop keeps running: while True around xreadgroup
SpecAnalysisFair == InitAnalysisSpec /\ [][NextAnalysis]_vars /\ WF_vars(NextAnalysis)

InitActionSpec ==
    InitAction /\ AggIdle /\ RiskIdle /\ IngestIdle /\ IntentIdle /\ AnalysisIdle /\ AnalyzersIdle

SpecAction == InitActionSpec /\ [][NextAction]_vars

\* one more concurrent call of process_action than GMAIL_SEMAPHORE has
\* permits, each for a message of its own with a malicious verdict
PermitCalls == 1..(GMAIL_SEMAPHORE + 1)

PermitMessageIds == <<"m1", "m2", "m3", "m4", "m5", "m6">>

PermitPayload(n) ==
    [message_id |-> PermitMessageIds[n], sandbox_result |-> "malicious",
     extracted_urls |-> <<>>]

PermitBegin == \E n \in PermitCalls : ActionBegin(n, PermitPayload(n))
PermitLabelStart == \E n \in PermitCalls : ActionLabelStart(n)
PermitLabelEnd ==
    \E n \in PermitCalls : \E outcome \in {"ok", "raised"} : ActionLabelEnd(n, outcome)

NextActionPermits == PermitBegin \/ PermitLabelStart \/ PermitLabelEnd

InitActionPermits ==
    /\ actionPayload = [n \in PermitCalls |-> NoPayload]
    /\ actionPc = [n \in PermitCalls |-> "new"]
    /\ actionLocal = [n \in PermitCalls |-> NoLocals]
    /\ processed_messages = {}
    /\ MOVE_MALICIOUS_TO_SPAM \in BOOLEAN
    /\ gmailPermits = GMAIL_SEMAPHORE
    /\ labelCalls = <<>>
    /\ AggIdle /\ RiskIdle /\ IngestIdle /\ IntentIdle /\ AnalysisIdle /\ AnalyzersIdle

SpecActionPermits == InitActionPermits /\ [][NextActionPermits]_vars

InitIntentSpec == InitIntent /\ AggIdle /\ RiskIdle /\ IngestIdle /\ ActionIdle /\ AnalysisIdle /\ AnalyzersIdle

SpecIntent == InitIntentSpec /\ [][NextIntent]_vars

\* the worker loop keeps running: while True around xreadgroup
SpecIntentFair == InitIntentSpec /\ [][NextIntent]_vars /\ WF_vars(NextIntent)

InitIngestSpec == InitIngest /\ AggIdle /\ RiskIdle /\ IntentIdle /\ ActionIdle /\ AnalysisIdle /\ AnalyzersIdle

SpecIngest == InitIngestSpec /\ [][NextIngest]_vars

\* the producer with failing commits and failing publishes
CommitFaulty == \E p \in Callers : \E ok \in BOOLEAN : IngestCommit(p, ok)
PublishFaulty == \E p \in Callers : \E ok \in BOOLEAN : IngestPublish(p, ok)

NextIngestFaults == Loop \/ CommitFaulty \/ PublishFaulty

SpecIngestFaults == InitIngestSpec /\ [][NextIngestFaults]_vars

\* the same, with every call running on until it returns or raises
SpecIngestFair ==
    InitIngestSpec /\ [][NextIngestFaults]_vars /\ WF_vars(NextIngestFaults)

NextRisk == EvaluateRisk

InitRiskSpec == InitRisk /\ AggIdle /\ IngestIdle /\ IntentIdle /\ ActionIdle /\ AnalysisIdle /\ AnalyzersIdle

SpecRisk == InitRiskSpec /\ [][NextRisk]_vars

Init == InitAgg /\ TimeIdle /\ ProcIdle /\ RiskIdle /\ IngestIdle /\ IntentIdle /\ ActionIdle /\ AnalysisIdle /\ AnalyzersIdle

Control == \E j \in Jobs : handle_control(j) /\ Untimed
IntentDone == \E j \in Jobs : handle_intent_done(j, TRUE, TRUE) /\ Untimed
SandboxDone == \E j \in Jobs : handle_sandbox_done(j, TRUE, TRUE) /\ Untimed
Expire == \E j \in Jobs : ExpireState(j) /\ Untimed

Next == Control \/ IntentDone \/ SandboxDone \/ Expire

Spec == Init /\ [][Next]_vars

\* the aggregator with its clock: the handlers, the expiry of the keys and
\* the reaper cleanup_expired_jobs
Delays == {60}
\* the Date header of an email: an hour old, fresh, or dated an hour ahead
ReceivedAtSamples == {-3600, 0, 3600}

\* mutant of Stamp: save_state sets no expiry on the key
Stamp_no_expire(j, synthesizes) ==
    /\ expireAt' = [expireAt EXCEPT ![j] = NoExpiry]
    /\ stateBorn' = [stateBorn EXCEPT
            ![j] = IF jobState'[j] = NoState THEN 0
                   ELSE IF jobState[j] = NoState THEN now ELSE @]
    /\ syntheticAt' = [syntheticAt EXCEPT
            ![j] = IF jobState'[j] = NoState \/ jobState'[j]["created_at"] # "now" THEN 0
                   ELSE IF synthesizes /\ jobState[j] = NoState THEN now ELSE @]
    /\ UNCHANGED <<now, reaperNext, receivedAt, procVars>>

\* what a handler's save_state / delete_state and clock reads leave behind
Stamp(j, synthesizes) ==
    /\ expireAt' = [expireAt EXCEPT
            ![j] = IF jobState'[j] = NoState THEN NoExpiry ELSE now + STATE_TTL]
    /\ stateBorn' = [stateBorn EXCEPT
            ![j] = IF jobState'[j] = NoState THEN 0
                   ELSE IF jobState[j] = NoState THEN now ELSE @]
    /\ syntheticAt' = [syntheticAt EXCEPT
            ![j] = IF jobState'[j] = NoState \/ jobState'[j]["created_at"] # "now" THEN 0
                   ELSE IF synthesizes /\ jobState[j] = NoState THEN now ELSE @]
    /\ UNCHANGED <<now, reaperNext, receivedAt, procVars>>

\* created_at as cleanup_expired_jobs parses it from the hash
CreatedAt(j) ==
    IF jobState[j]["created_at"] = "received_at" THEN receivedAt[j] ELSE syntheticAt[j]

\* the times recorded for a state that was deleted are reset
Forget ==
    /\ stateBorn' = [j \in Jobs |-> IF jobState'[j] = NoState THEN 0 ELSE stateBorn[j]]
    /\ syntheticAt' = [j \in Jobs |-> IF jobState'[j] = NoState THEN 0 ELSE syntheticAt[j]]

\* age_seconds > STATE_TTL
IsExpired(j) == now - CreatedAt(j) > STATE_TTL

\* one pass of cleanup_expired_jobs after its sleep
cleanup_expired_jobs ==
    /\ now = reaperNext
    /\ jobState' = [j \in Jobs |->
            IF jobState[j] # NoState /\ IsExpired(j) THEN NoState ELSE jobState[j]]
    /\ expireAt' = [j \in Jobs |->
            IF jobState[j] # NoState /\ IsExpired(j) THEN NoExpiry ELSE expireAt[j]]
    /\ reaperNext' = now + CLEANUP_INTERVAL
    /\ lastOp' = [kind |-> "cleanup", job |-> "", saved |-> NoState,
                  complete |-> FALSE, outcome |-> "none"]
    /\ Forget
    /\ UNCHANGED <<jobInput, emailRow, finalReports, delivered, acked, now, receivedAt,
                   procVars>>
    /\ AggOnly

\* time passes; a key whose TTL has run out is gone
Tick(d) ==
    /\ now + d <= MaxTime
    /\ now + d <= reaperNext
    /\ now' = now + d
    /\ jobState' = [j \in Jobs |->
            IF expireAt[j] # NoExpiry /\ expireAt[j] <= now + d
            THEN NoState ELSE jobState[j]]
    /\ expireAt' = [j \in Jobs |->
            IF expireAt[j] # NoExpiry /\ expireAt[j] <= now + d
            THEN NoExpiry ELSE expireAt[j]]
    /\ lastOp' = [kind |-> "clock", job |-> "", saved |-> NoState,
                  complete |-> FALSE, outcome |-> "none"]
    /\ Forget
    /\ UNCHANGED <<jobInput, emailRow, finalReports, delivered, acked,
                   reaperNext, receivedAt, procVars>>
    /\ AggOnly

TimedControl == \E j \in Jobs : handle_control(j) /\ Stamp(j, FALSE)
TimedIntentDone == \E j \in Jobs : handle_intent_done(j, TRUE, TRUE) /\ Stamp(j, TRUE)
TimedSandboxDone == \E j \in Jobs : handle_sandbox_done(j, TRUE, TRUE) /\ Stamp(j, TRUE)
Cleanup == cleanup_expired_jobs
Clock == \E d \in Delays : Tick(d)

NextReaper == TimedControl \/ TimedIntentDone \/ TimedSandboxDone \/ Cleanup \/ Clock

InitReaper ==
    /\ jobInput \in [Jobs -> [requiresB : BOOLEAN, intent : {"newsletter"},
                              verdict : {"malicious"}]]
    /\ emailRow \in [Jobs -> [exists : BOOLEAN, status : {"PROCESSING"},
                              message_id : {"m1"}]]
    /\ jobState = [j \in Jobs |-> NoState]
    /\ finalReports = <<>>
    /\ delivered = [j \in Jobs |-> [s \in Streams |-> 0]]
    /\ acked = [j \in Jobs |-> [s \in Streams |-> 0]]
    /\ lastOp = [kind |-> "init", job |-> "", saved |-> NoState,
                 complete |-> FALSE, outcome |-> "none"]
    /\ now = 0
    /\ expireAt = [j \in Jobs |-> NoExpiry]
    /\ reaperNext = CLEANUP_INTERVAL
    /\ stateBorn = [j \in Jobs |-> 0]
    /\ receivedAt \in [Jobs -> ReceivedAtSamples]
    /\ syntheticAt = [j \in Jobs |-> 0]
    /\ ProcIdle /\ RiskIdle /\ IngestIdle /\ IntentIdle /\ ActionIdle /\ AnalysisIdle /\ AnalyzersIdle

SpecReaper == InitReaper /\ [][NextReaper]_vars

\* the last moment a message of a job arrives: afterwards the clock runs
\* for STATE_TTL plus one reaper interval more
ArrivalsEnd == MaxTime - STATE_TTL - CLEANUP_INTERVAL

ArrivingControl == now <= ArrivalsEnd /\ TimedControl
ArrivingIntentDone ==
    /\ now <= ArrivalsEnd
    /\ \E j \in Jobs : \E dbOk \in BOOLEAN, xaddOk \in BOOLEAN :
          handle_intent_done(j, dbOk, xaddOk) /\ Stamp(j, TRUE)
ArrivingSandboxDone ==
    /\ now <= ArrivalsEnd
    /\ \E j \in Jobs : \E dbOk \in BOOLEAN, xaddOk \in BOOLEAN :
          handle_sandbox_done(j, dbOk, xaddOk) /\ Stamp(j, TRUE)

NextReaperFair ==
    ArrivingControl \/ ArrivingIntentDone \/ ArrivingSandboxDone \/ Cleanup \/ Clock

\* time passes, and the reaper task created by run_loop runs after each of
\* its sleeps
SpecReaperFair ==
    InitReaper /\ [][NextReaperFair]_vars /\ WF_vars(Clock) /\ WF_vars(Cleanup)

\* two aggregator processes of the group aggregator_workers: one was handed
\* the job's intent-done, the other its analysis-done
ProcStream(p) == IF p = "p1" THEN "intent_done" ELSE "analysis_done"

\* load_state, or the synthetic state of the handler
ConcLoad(p, j) ==
    LET stream == ProcStream(p)
        loaded == jobState[j]
    IN  /\ procPc[p] = "start"
        /\ delivered[j][stream] < 1
        /\ delivered' = [delivered EXCEPT ![j][stream] = @ + 1]
        /\ procState' = [procState EXCEPT ![p] =
                IF loaded = NoState
                THEN SyntheticState(j, IF stream = "intent_done" THEN "false" ELSE "true")
                ELSE loaded]
        /\ procPc' = [procPc EXCEPT ![p] = "loaded"]
        /\ UNCHANGED <<jobInput, emailRow, jobState, finalReports, acked, lastOp, timeVars>>
        /\ AggOnly

\* the handler stores its result in its dict and save_state writes the dict
ConcSave(p, j) ==
    LET stream == ProcStream(p)
        state == IF stream = "intent_done"
                 THEN HSet(procState[p], ("intent" :> JsonDumps(IntentDonePayload(j)))
                                         @@ ("intent_received" :> "true"))
                 ELSE HSet(procState[p], ("sandbox" :> JsonDumps(SandboxDonePayload(j)))
                                         @@ ("sandbox_received" :> "true"))
    IN  /\ procPc[p] = "loaded"
        /\ procState' = [procState EXCEPT ![p] = state]
        /\ jobState' = [jobState EXCEPT ![j] = HSet(@, state)]
        /\ procPc' = [procPc EXCEPT ![p] = "saved"]
        /\ UNCHANGED <<jobInput, emailRow, finalReports, delivered, acked, lastOp, timeVars>>
        /\ AggOnly

\* is_job_complete on the handler's dict, finalize_job, and run_loop's xack
ConcFinish(p, j) ==
    LET stream == ProcStream(p)
        state == procState[p]
        complete == is_job_complete(state)
        outcome == IF complete THEN FinalizeOutcome(j, TRUE, TRUE) ELSE "none"
    IN  /\ procPc[p] = "saved"
        /\ emailRow' = IF outcome = "ok"
                       THEN [emailRow EXCEPT ![j].status = "COMPLETED"] ELSE emailRow
        /\ finalReports' = IF outcome = "ok"
                           THEN Append(finalReports, final_payload(j, state))
                           ELSE finalReports
        /\ jobState' = IF outcome = "ok" THEN [jobState EXCEPT ![j] = NoState] ELSE jobState
        /\ acked' = [acked EXCEPT ![j][stream] = @ + 1]
        /\ lastOp' = [kind |-> stream, job |-> j, saved |-> state,
                      complete |-> complete, outcome |-> outcome]
        /\ procPc' = [procPc EXCEPT ![p] = "done"]
        /\ UNCHANGED <<jobInput, delivered, procState, timeVars>>
        /\ AggOnly

Load == \E p \in Procs : \E j \in Jobs : ConcLoad(p, j)
Save == \E p \in Procs : \E j \in Jobs : ConcSave(p, j)
Finish == \E p \in Procs : \E j \in Jobs : ConcFinish(p, j)

NextConcurrent == Load \/ Save \/ Finish

\* a requiresB=true job whose control was handled (or not yet) before the
\* two done messages are handed out
InitConcurrent ==
    /\ jobInput \in [Jobs -> [requiresB : {TRUE}, intent : IntentSamples,
                              verdict : VerdictSamples]]
    /\ emailRow \in [Jobs -> [exists : BOOLEAN, status : {"PROCESSING"},
                              message_id : {"m1"}]]
    /\ \E controlled \in BOOLEAN :
          /\ jobState = [j \in Jobs |->
                IF controlled
                THEN [job_id |-> j, requiresB |-> "true", created_at |-> "received_at",
                      intent_received |-> "false", sandbox_received |-> "false"]
                ELSE NoState]
          /\ delivered = [j \in Jobs |-> [s \in Streams |->
                IF s = "control" /\ controlled THEN 1 ELSE 0]]
          /\ acked = [j \in Jobs |-> [s \in Streams |->
                IF s = "control" /\ controlled THEN 1 ELSE 0]]
    /\ finalReports = <<>>
    /\ lastOp = [kind |-> "init", job |-> "", saved |-> NoState,
                 complete |-> FALSE, outcome |-> "none"]
    /\ TimeIdle /\ ProcIdle /\ RiskIdle /\ IngestIdle /\ IntentIdle /\ ActionIdle /\ AnalysisIdle /\ AnalyzersIdle

SpecConcurrent == InitConcurrent /\ [][NextConcurrent]_vars

\* the aggregator with failing database sessions and failing publishes
IntentDoneFaulty ==
    \E j \in Jobs : \E dbOk, xaddOk \in BOOLEAN :
        handle_intent_done(j, dbOk, xaddOk) /\ Untimed
SandboxDoneFaulty ==
    \E j \in Jobs : \E dbOk, xaddOk \in BOOLEAN :
        handle_sandbox_done(j, dbOk, xaddOk) /\ Untimed

NextFaults == Control \/ IntentDoneFaulty \/ SandboxDoneFaulty \/ Expire

SpecFaults == Init /\ [][NextFaults]_vars

(***************************************************************************)
(* Claims about the aggregator (specification Spec)                        *)
(***************************************************************************)
ReportsOf(j) == {i \in DOMAIN finalReports : finalReports[i].job_id = j}
NumReports(j) == Cardinality(ReportsOf(j))

\* C1: over any deliveries of a job's control, intent-done and analysis-done,
\* duplicates included, at most one final-report is published for the job,
\* and exactly one once its EmailEvent is COMPLETED.
C1_OneFinalReportPerJob ==
    \A j \in Jobs :
        /\ NumReports(j) <= 1
        /\ emailRow[j].status = "COMPLETED" => NumReports(j) = 1

\* C2: for a job whose control carries requiresB=true no final-report is
\* published until both an intent-done and an analysis-done of the job have
\* been handled, in whatever order the three messages arrive.
C2_SandboxedJobWaitsForBoth ==
    \A j \in Jobs :
        (jobInput[j].requiresB /\ NumReports(j) > 0)
            => (delivered[j]["intent_done"] > 0 /\ delivered[j]["analysis_done"] > 0)

\* each message of the job has been handled exactly once
AllHandledOnce(j) ==
    /\ delivered[j]["control"] = 1
    /\ delivered[j]["intent_done"] = 1
    /\ delivered[j]["analysis_done"] = (IF jobInput[j].requiresB THEN 1 ELSE 0)

ExpectedSandbox(j) ==
    IF jobInput[j].requiresB THEN JsonDumps(SandboxDonePayload(j)) ELSE JsonDumps(None)

\* C3: for a job whose row exists, every arrival order of control, intent-done
\* and (when requiresB) analysis-done ends in the same outcome: COMPLETED, one
\* final-report with the job's intent and sandbox payloads, no state left.
C3_OrderIndependentOutcome ==
    \A j \in Jobs :
        (emailRow[j].exists /\ AllHandledOnce(j)) =>
            /\ emailRow[j].status = "COMPLETED"
            /\ NumReports(j) = 1
            /\ \A i \in ReportsOf(j) :
                  /\ finalReports[i].intent = JsonDumps(IntentDonePayload(j))
                  /\ finalReports[i].sandbox = ExpectedSandbox(j)
            /\ jobState[j] = NoState

Flags == {"true", "false"}

\* the specified predicate: intent_received AND (NOT requiresB OR sandbox_received)
CompletionPredicate(state) ==
    state["intent_received"] = "true"
        /\ (state["requiresB"] # "true" \/ state["sandbox_received"] = "true")

\* C4: is_job_complete equals intent_received AND (NOT requiresB OR
\* sandbox_received) for every combination of the three flags, and a done
\* handler starts finalization exactly when the state it has just saved
\* satisfies that predicate.
C4_CompletionPredicate ==
    /\ \A rb \in Flags, ir \in Flags, sr \in Flags :
          LET st == [requiresB |-> rb, intent_received |-> ir, sandbox_received |-> sr]
          IN  is_job_complete(st) <=> CompletionPredicate(st)
    /\ lastOp.kind \in {"intent_done", "analysis_done"} =>
          ((lastOp.outcome # "none") <=> CompletionPredicate(lastOp.saved))

\* witness of C4: an analysis-done completed a sandboxed job and finalized it
C4_Witness ==
    /\ lastOp.kind = "analysis_done"
    /\ lastOp.outcome = "ok"
    /\ lastOp.saved["requiresB"] = "true"
    /\ lastOp.saved["intent_received"] = "true"

\* C5: for a requiresB=false job whose row exists, once control and then
\* intent-done have been handled the job is finalized without analysis-done:
\* COMPLETED, one final-report whose sandbox is JSON null, state deleted.
C5_UnsandboxedFinalizesOnIntent ==
    \A j \in Jobs :
        (/\ lastOp.kind = "intent_done" /\ lastOp.job = j
         /\ ~jobInput[j].requiresB
         /\ emailRow[j].exists
         /\ delivered[j]["control"] >= 1
         /\ delivered[j]["intent_done"] = 1) =>
            /\ emailRow[j].status = "COMPLETED"
            /\ NumReports(j) = 1
            /\ \A i \in ReportsOf(j) : finalReports[i].sandbox = JsonDumps(None)
            /\ jobState[j] = NoState
            /\ delivered[j]["analysis_done"] = 0

\* witness of C5: control, then the one intent-done, and the job is finalized
C5_Witness ==
    \E j \in Jobs :
        /\ lastOp.kind = "intent_done" /\ lastOp.job = j /\ lastOp.outcome = "ok"
        /\ ~jobInput[j].requiresB
        /\ delivered[j]["control"] = 1
        /\ delivered[j]["intent_done"] = 1
        /\ NumReports(j) = 1

(***************************************************************************)
(* Claims about the static risk gate (specification SpecRisk)              *)
(***************************************************************************)
RiskyIdx(atts) == {i \in DOMAIN atts : SplitextLower(atts[i].filename) \in RISKY_EXTENSIONS}
ZipIdx(atts) == {i \in DOMAIN atts : atts[i].mime_type = "application/zip"}

UrlPoints(n) == (IF n > 0 THEN 5 ELSE 0) + (IF n > 3 THEN 20 ELSE 0)

\* the result the claim specifies, given the attachments that count as
\* archives
SpecifiedRisk(email, archives) ==
    LET atts == email.attachments
        n == Len(email.extracted_urls)
        score == Min(100, 70 * Cardinality(RiskyIdx(atts))
                          + 30 * Cardinality(archives) + UrlPoints(n))
    IN  [score |-> score,
         should_sandbox |-> \/ RiskyIdx(atts) # {}
                            \/ archives # {}
                            \/ n > 3
                            \/ score > 50]

RiskMatches(expected) ==
    riskResult # NotEvaluated =>
        /\ riskResult.score = expected.score
        /\ riskResult.should_sandbox = expected.should_sandbox
        /\ riskResult.score \in 0..100

\* C9 as stated: +70 and requiresSandbox for each attachment with a risky
\* extension, +30 and requiresSandbox for each attachment of MIME
\* application/zip, +5 for any URL, +20 and requiresSandbox for more than 3
\* URLs, the score clamped to 100, requiresSandbox forced when it exceeds 50.
C9_RiskGateAsStated ==
    RiskMatches(SpecifiedRisk(riskEmail, ZipIdx(riskEmail.attachments)))

\* C9 as amended: the +30 is added only for an application/zip attachment
\* whose extension is not a risky one (an attachment scores +70 or +30,
\* never both); everything else as stated.
C9_RiskGateAmended ==
    RiskMatches(SpecifiedRisk(riskEmail,
        ZipIdx(riskEmail.attachments) \ RiskyIdx(riskEmail.attachments)))

\* witness of C9: an evaluated email with a risky-extension attachment of
\* MIME application/zip, a plain archive and more than 3 URLs
C9_Witness ==
    /\ riskResult # NotEvaluated
    /\ RiskyIdx(riskEmail.attachments) \cap ZipIdx(riskEmail.attachments) # {}
    /\ ZipIdx(riskEmail.attachments) \ RiskyIdx(riskEmail.attachments) # {}
    /\ Len(riskEmail.extracted_urls) > 3
    /\ riskResult.score = 100
    /\ riskResult.should_sandbox

(***************************************************************************)
(* Claims about the ingest producer (specification SpecIngest)             *)
(***************************************************************************)
\* positions in the publish order of the job's messages on a stream
Pos(stream, job) ==
    {n \in DOMAIN published : published[n].stream = stream /\ published[n].job = job}

\* the jobs an ingest call has built so far
BuiltJobs(p) == {ingest[p].session[n].id : n \in DOMAIN ingest[p].session}
AllBuiltJobs == UNION {BuiltJobs(p) : p \in Callers}

\* the provider message a job was built for: job <<p, i>> is emails[i] of call p
MessageOf(job) == ingest[job[1]].emails[job[2]]

\* C7: after any interleaving of ingest calls, two concurrent calls with the
\* same message_id included, at most one EmailEvent row exists per message_id
\* and stream messages are published for at most one job per message_id.
C7_OneRowPerMessageId ==
    \A mid \in MessageIds :
        /\ Cardinality({r \in dbRows : r.message_id = mid}) <= 1
        /\ Cardinality({published[n].job : n \in
                {k \in DOMAIN published : MessageOf(published[k].job) = mid}}) <= 1

GateOf(job) == evaluate_static_risk(EmailOf(MessageOf(job))).should_sandbox

\* C8: for every newly ingested email the control is appended to emails:job
\* before the intent-request to emails:intent and that before the
\* analysis-request to emails:analysis; once the call has returned, control
\* and intent-request are published once, and the analysis-request is
\* published if and only if the risk gate returned requiresSandbox=true.
C8_PublishOrder ==
    \A p \in Callers : \A job \in BuiltJobs(p) :
        /\ \A n \in Pos("emails:intent", job) :
              \E c \in Pos("emails:job", job) : c < n
        /\ \A n \in Pos("emails:analysis", job) :
              /\ \E c \in Pos("emails:intent", job) : c < n
              /\ GateOf(job)
        /\ ingest[p].pc = "done" =>
              /\ Cardinality(Pos("emails:job", job)) = 1
              /\ Cardinality(Pos("emails:intent", job)) = 1
              /\ Cardinality(Pos("emails:analysis", job)) = (IF GateOf(job) THEN 1 ELSE 0)

\* witness of C8: a returned call that ingested a sandboxed and an
\* unsandboxed email and published all their messages
C8_Witness ==
    \E p \in Callers :
        /\ ingest[p].pc = "done"
        /\ \E j1 \in BuiltJobs(p), j2 \in BuiltJobs(p) :
              /\ GateOf(j1) /\ ~GateOf(j2)
              /\ Pos("emails:analysis", j1) # {}
              /\ Pos("emails:intent", j2) # {}

(***************************************************************************)
(* Claims about the intent worker (specification SpecIntent)               *)
(***************************************************************************)
\* C6: for every intent-request processed successfully the worker publishes
\* one intent-done for the job on emails:intent:done, and it acknowledges the
\* request only after that publish.
C6_IntentDonePublished ==
    \A n \in IntentMessages :
        (intentResult[n] = "success" /\ intentMsg[n] = "acked")
            => Cardinality({i \in DOMAIN intentDone :
                                intentDone[i].job_id = intentRequest[n]}) >= 1

\* the tiers the claim specifies
SpecifiedTier(s) ==
    CASE s < 30 -> "SAFE"
      [] 30 <= s /\ s < 80 -> "CAUTIOUS"
      [] s >= 80 -> "THREAT"

\* C10: for every risk_score in 0..100 the tier is SAFE iff score < 30,
\* CAUTIOUS iff 30 <= score < 80, THREAT iff score >= 80, and the risk_tier
\* the intent worker stores with a risk_score equals classify_risk of it.
C10_RiskTierOfScore ==
    /\ \A s \in 0..100 : classify_risk(s) = SpecifiedTier(s)
    /\ intentRow.risk_score # NoScore =>
          /\ intentRow.risk_score \in 0..100
          /\ intentRow.risk_tier = classify_risk(intentRow.risk_score)

\* witness of C10: the worker stored the boundary score 30 with its tier
C10_Witness ==
    /\ intentRow.risk_score = 30
    /\ intentRow.risk_tier = "CAUTIOUS"
    /\ \E n \in IntentMessages : intentResult[n] = "success"

\* round(base(intent)*c + 50*(1-c)) to the nearest integer, c in tenths
RoundedScore(intent, c) ==
    (2 * (RISK_MAPPING(intent) * c + 50 * (10 - c)) + 10) \div 20

\* C11: for every intent of the taxonomy and every confidence on the grid
\* the stored risk_score equals round(base(intent)*c + 50*(1-c)), rounding
\* to the nearest integer (newsletter at 0.9 gives 28, invoice at 0.7 gives 43).
C11_RiskScoreRounded ==
    (intentRow.intent # NoIntent /\ intentRow.risk_score # NoScore)
        => intentRow.risk_score
             = RoundedScore(intentRow.intent, intentRow.intent_confidence)

(***************************************************************************)
(* Claims about the action worker (specification SpecAction)               *)
(***************************************************************************)
\* the verdict the claim specifies for a payload
SpecifiedVerdict(payload) ==
    IF payload.sandbox_result = NoSandbox THEN "clean"
    ELSE IF payload.sandbox_result = "unknown" THEN "suspicious"
    ELSE payload.sandbox_result

\* the calls of process_action that have settled their final verdict
Decided == {n \in Actions : actionPc[n] \in {"label", "labelling", "done"}}

\* C12: the verdict used for labelling is clean when the sandbox result is
\* null or absent, suspicious when the sandbox verdict is unknown, and
\* otherwise the sandbox verdict unchanged.
C12_VerdictDerivation ==
    \A n \in Decided :
        actionLocal[n].final_verdict = SpecifiedVerdict(actionPayload[n])

\* the label the claim specifies for a verdict string
SpecifiedLabel(verdict) ==
    CASE verdict = "malicious" -> "MailShield/MALICIOUS"
      [] verdict = "suspicious" -> "MailShield/CAUTIOUS"
      [] verdict \in {"clean", "safe"} -> "MailShield/SAFE"
      [] OTHER -> "MailShield/CAUTIOUS"

CallsFor(message_id) == {i \in DOMAIN labelCalls : labelCalls[i].message_id = message_id}

\* C14: for any sequence of payloads handled by one action worker process,
\* duplicates and concurrent ones included, the label application is
\* attempted at most once per message; every later delivery is skipped
\* without a provider call.
C14_LabelAtMostOnce ==
    \A m \in ActionMessageIds :
        /\ Cardinality(CallsFor(m)) <= 1
        /\ Cardinality({n \in Actions : /\ actionPayload[n].message_id = m
                                         /\ actionPc[n] \notin {"new", "skipped"}}) <= 1

\* witness of C14: of two deliveries for one message one was skipped and the
\* other called the provider once
C14_Witness ==
    \E n1, n2 \in Actions :
        /\ n1 # n2
        /\ actionPayload[n1].message_id = actionPayload[n2].message_id
        /\ actionPc[n1] = "done"
        /\ actionPc[n2] = "skipped"
        /\ Cardinality(CallsFor(actionPayload[n1].message_id)) = 1

(***************************************************************************)
(* Claims about the aggregator's control handler and finalization          *)
(* (specifications Spec and SpecFaults)                                    *)
(***************************************************************************)
\* C16: handling a control for a job whose state already exists leaves
\* requiresB, created_at, intent_received, sandbox_received and the stored
\* intent and sandbox payloads unchanged (only the TTL is refreshed).
C16_DuplicateControlKeepsState ==
    [][\A j \in Jobs :
          (delivered'[j]["control"] = delivered[j]["control"] + 1
              /\ jobState[j] # NoState)
            => jobState'[j] = jobState[j]]_vars

\* C17: when the control of a job is handled after the job was finalized
\* from synthetic state, the handler is a no-op: no state for the job exists
\* afterwards and no further final-report is published.
C17_LateControlIsNoOp ==
    \A j \in Jobs :
        (/\ lastOp.kind = "control" /\ lastOp.job = j
         /\ delivered[j]["control"] = 1
         /\ NumReports(j) >= 1)
            => /\ jobState[j] = NoState
               /\ NumReports(j) = 1

\* C18: if the completion predicate holds for a job whose EmailEvent row
\* does not exist, finalization aborts: no final-report, the state (as just
\* saved) is kept, and no EmailEvent is created or changed.
C18_RowMissingAborts ==
    \A j \in Jobs :
        ~emailRow[j].exists =>
            /\ NumReports(j) = 0
            /\ emailRow[j].status = "PROCESSING"
            /\ (lastOp.job = j /\ lastOp.complete) =>
                  /\ lastOp.outcome = "row_missing"
                  /\ jobState[j] = lastOp.saved
                  /\ jobState[j] # NoState

\* witness of C18: a done message completed a job whose row is missing
C18_Witness ==
    \E j \in Jobs :
        /\ ~emailRow[j].exists
        /\ lastOp.job = j /\ lastOp.complete /\ lastOp.outcome = "row_missing"
        /\ jobInput[j].requiresB
        /\ is_job_complete(jobState[j])

\* C19: a final-report for a job is on job:completed only if its row was
\* committed as COMPLETED first, and a finalization whose database update
\* fails publishes no final-report.
C19_ReportAfterCommit ==
    /\ [](\A i \in DOMAIN finalReports :
            /\ emailRow[finalReports[i].job_id].exists
            /\ emailRow[finalReports[i].job_id].status = "COMPLETED")
    /\ [][lastOp'.outcome = "db_error" => finalReports' = finalReports]_vars

\* witness of C19: a finalization failed in the database, nothing was
\* published and the row is still PROCESSING
C19_Witness ==
    \E j \in Jobs :
        /\ lastOp.job = j /\ lastOp.complete /\ lastOp.outcome = "db_error"
        /\ emailRow[j].exists /\ emailRow[j].status = "PROCESSING"
        /\ NumReports(j) = 0

\* C20: if finalization fails with a database or broker error while a done
\* message is handled, that message is not acknowledged (it stays pending).
C20_FailedFinalizeNotAcked ==
    \A j \in Jobs :
        (lastOp.job = j /\ lastOp.outcome \in {"db_error", "xadd_error"})
            => acked[j][lastOp.kind] < delivered[j][lastOp.kind]

(***************************************************************************)
(* Claims about the reaper (specification SpecReaper)                      *)
(***************************************************************************)
\* C15: if a job's control is handled but its intent-done never arrives, the
\* job state is deleted no later than STATE_TTL plus the reaper interval
\* after the state was created, no final-report is published for the job and
\* its EmailEvent stays PROCESSING.
C15_ReapedWithinTtlPlusInterval ==
    \A j \in Jobs :
        (delivered[j]["control"] >= 1 /\ delivered[j]["intent_done"] = 0) =>
            /\ jobState[j] # NoState =>
                  now - stateBorn[j] <= STATE_TTL + CLEANUP_INTERVAL
            /\ NumReports(j) = 0
            /\ emailRow[j].status = "PROCESSING"

(***************************************************************************)
(* Claims about concurrent aggregator processes (SpecConcurrent)           *)
(***************************************************************************)
\* C21: when the intent-done and the analysis-done of one requiresB=true job
\* are handled concurrently by two aggregator processes, under every
\* interleaving of their load-state and save-state steps neither flag update
\* is lost and the job is finalized exactly once.
C21_ConcurrentDonesFinalizeOnce ==
    \A j \in Jobs :
        (/\ \A p \in Procs : procPc[p] = "done"
         /\ delivered[j]["control"] = 1
         /\ emailRow[j].exists)
            => /\ NumReports(j) = 1
               /\ emailRow[j].status = "COMPLETED"

(***************************************************************************)
(* Claims about the producer under failures (SpecIngestFaults,             *)
(* SpecIngestFair)                                                         *)
(***************************************************************************)
Committed(job) == \E r \in dbRows : r.id = job

\* an ingest call whose commit failed: it built rows, none is in the table
CommitFailed(p) ==
    /\ ingest[p].pc = "failed"
    /\ BuiltJobs(p) # {}
    /\ \A job \in BuiltJobs(p) : ~Committed(job)

\* C22: no stream message is published for a job unless the commit of its
\* EmailEvent succeeded; when the commit fails nothing is appended to
\* emails:job, emails:intent or emails:analysis and the call raises.
C22_NoPublishWithoutCommit ==
    /\ \A n \in DOMAIN published : Committed(published[n].job)
    /\ \A p \in Callers :
          (ingest[p].pc \in {"publish", "done"} /\ BuiltJobs(p) # {})
              => \A job \in BuiltJobs(p) : Committed(job)

\* witness of C22: the commit of a call failed, the call raised and nothing
\* of it is on a stream, while the other call published
C22_Witness ==
    \E p, q \in Callers :
        /\ CommitFailed(p)
        /\ \A n \in DOMAIN published : published[n].job \notin BuiltJobs(p)
        /\ ingest[q].pc = "done" /\ BuiltJobs(q) # {}
        /\ \E n \in DOMAIN published : published[n].job \in BuiltJobs(q)

\* every message of a job is on its stream
AllPublished(job) ==
    /\ Pos("emails:job", job) # {}
    /\ Pos("emails:intent", job) # {}
    /\ \E r \in dbRows : r.id = job /\ (r.sandboxed => Pos("emails:analysis", job) # {})

\* C23: if publishing fails after the EmailEvent was committed the publish
\* is retried: every committed EmailEvent eventually has its control, its
\* intent-request and (when sandboxed) its analysis-request on the streams.
C23_CommittedEventuallyPublished ==
    \A p \in Callers : \A i \in 1..MaxBatch :
        Committed(<<p, i>>) ~> AllPublished(<<p, i>>)

\* C24: every EmailEvent the producer persisted, on every ingest path, has
\* initial status PROCESSING and sandboxed equal to the risk gate's
\* requiresSandbox, which is the requiresB its control message carries.
C24_PersistedProcessingAndGate ==
    \A r \in dbRows :
        /\ r.status = "PROCESSING"
        /\ r.sandboxed = GateOf(r.id)
        /\ \A n \in DOMAIN published :
              (published[n].stream = "emails:job" /\ published[n].job = r.id)
                  => published[n].payload.requiresB = PyStr(r.sandboxed)

(***************************************************************************)
(* Claims about the intent worker's effects and failures (SpecIntent,      *)
(* SpecIntentFair)                                                         *)
(***************************************************************************)
\* message n has just been handled with the given result
JustHandled(n, how) == intentResult[n] = "none" /\ intentResult'[n] = how

\* C25: when the intent worker processes an intent-request successfully it
\* persists the intent fields, risk_score and risk_tier and leaves
\* EmailEvent.status as it was; the worker never sets COMPLETED.
C25_SuccessKeepsStatus ==
    [][\A n \in IntentMessages :
          JustHandled(n, "success") => /\ intentRow'.status = intentRow.status
                                       /\ intentRow'.status # "COMPLETED"]_vars

\* C27: if the analyzer raises while an intent-request is handled, the
\* worker sets the EmailEvent status to FAILED, publishes no intent-done and
\* leaves the request unacknowledged.
C27_AnalyzerErrorFailsUnacked ==
    /\ [](\A n \in IntentMessages :
            intentResult[n] = "failed"
                => /\ intentMsg[n] = "pending"
                   /\ \A i \in DOMAIN intentDone :
                         intentDone[i].job_id # intentRequest[n])
    /\ [][\A n \in IntentMessages :
            JustHandled(n, "failed") => /\ intentRow'.status = "FAILED"
                                        /\ intentDone' = intentDone
                                        /\ intentMsg'[n] = "pending"]_vars

\* witness of C27: the analyzer raised on a request for the stored email;
\* the row is FAILED, the request pending, nothing is on emails:intent:done
C27_Witness ==
    \E n \in IntentMessages :
        /\ intentResult[n] = "failed"
        /\ intentRequest[n] = intentRow.id
        /\ intentRow.status = "FAILED"
        /\ intentMsg[n] = "pending"
        /\ intentDone = <<>>

\* C28: a message left unacknowledged because its handler failed is
\* eventually delivered to and handled by a consumer of the group again.
C28_PendingRedelivered ==
    \A n \in IntentMessages :
        (intentMsg[n] = "pending" /\ intentDeliveries[n] = 1)
            ~> (intentDeliveries[n] >= 2)

\* C29: a request whose email_id is missing or is no valid UUID is
\* acknowledged and dropped, without a database write and without a done
\* message; it never stays pending.
C29_PoisonAcknowledged ==
    /\ \A n \in IntentMessages :
          (intentRequest[n] \notin ValidIds /\ intentDeliveries[n] >= 1)
              => /\ intentMsg[n] = "acked"
                 /\ \A i \in DOMAIN intentDone :
                       intentDone[i].job_id # intentRequest[n]
    /\ (\A n \in IntentMessages : intentRequest[n] \notin ValidIds)
          => intentRow.intent = NoIntent

(***************************************************************************)
(* Claims about the analysis worker (SpecAnalysis, SpecAnalysisFair)       *)
(***************************************************************************)
\* C26: the analysis worker never changes EmailEvent.status: on every path
\* of handling an analysis-request, analyzer failure included, it only
\* persists sandbox_result and leaves the status as it was.
C26_AnalysisKeepsStatus ==
    [][analysisRow'.status = analysisRow.status]_vars

\* the analysis-done messages published for a job
DonesFor(job) == {i \in DOMAIN analysisDone : analysisDone[i].job_id = job}

\* C30: for every analysis-request whose EmailEvent exists the worker
\* eventually publishes an analysis-done for the job and then acknowledges
\* the request, whatever the analyzer does.
C30_AnalysisDoneThenAck ==
    \A n \in AnalysisMessages :
        (analysisRequest[n].email_id \in ValidIds /\ analysisRow.exists)
            ~> (analysisMsg[n] = "acked" /\ DonesFor(analysisRequest[n].email_id) # {})

\* a request with URLs to scan and no attachment_metadata field
UrlOnlyPayload ==
    [email_id |-> "e1", extracted_urls |-> "[]", attachment_metadata |-> Absent]

\* C31: whenever the worker emits verdict unknown because the analyzer
\* timed out or failed after its retries, the score it persists and
\* publishes as sandbox_score is 50, on the external-sandbox path and on
\* the URL-reputation path.
C31_UnknownScoresFifty ==
    /\ \A outcome \in {"submit_failed", "timed_out"} :
          /\ hybrid_analysis_scan(UrlOnlyPayload, outcome).verdict = "unknown"
          /\ hybrid_analysis_scan(UrlOnlyPayload, outcome).score = 50
    /\ ~USE_REAL_SANDBOX =>
          \A i \in DOMAIN analysisDone :
              analysisDone[i].verdict = "unknown" => analysisDone[i].sandbox_score = 50

\* the payload build_email_event serializes for an email without URLs and
\* without attachments: json.dumps of two empty lists
EmptyProducerPayload ==
    [email_id |-> "e1", extracted_urls |-> "[]", attachment_metadata |-> "[]"]

\* C32: for an analysis-request that carries an empty URL list and no
\* fetchable attachment, as the producer serializes it, the worker calls no
\* analyzer and emits verdict clean with score 0.
C32_NoTargetIsClean ==
    [][\A n \in AnalysisMessages :
          (/\ analysisRequest[n] = EmptyProducerPayload
           /\ analysisRow.exists
           /\ analysisMsg[n] = "new" /\ analysisMsg'[n] # "new")
              => /\ analysisRow'.sandbox_result = "clean"
                 /\ analysisDone' = Append(analysisDone,
                        [job_id |-> "e1", sandbox_score |-> 0, verdict |-> "clean"])]_vars

(***************************************************************************)
(* Claims about the analyzers (specification SpecAnalyzers)                *)
(***************************************************************************)
\* the waits the claim specifies before attempt number a+1: 1 s, 2 s, ...
SpecifiedWaits(a) == [i \in 1..a |-> 2 ^ (i - 1)]

\* C33: analyze_urls always terminates without raising: it makes at most 3
\* attempts with exponentially growing waits between failed attempts,
\* returns the first successful verdict, and returns unknown once the
\* third attempt has failed.
C33_AnalyzeUrlsTerminates ==
    /\ [](\A c \in UrlCalls :
            LET call == urlCall[c]
            IN  /\ call.attempt \in 0..2
                /\ call.slept = SpecifiedWaits(call.attempt)
                /\ call.pc = "returned" =>
                      /\ call.verdict \in {"malicious", "safe", "unknown"}
                      /\ (call.verdict = "unknown" /\ call.urls /\ call.api_key)
                            => call.attempt = 2)
    /\ [][\A c \in UrlCalls :
            (urlCall[c].pc = "attempt" /\ urlCall'[c].pc = "sleep")
                => urlCall[c].attempt < 2]_vars
    /\ <>[](\A c \in UrlCalls : urlCall[c].pc = "returned")

\* witness of C33: a call failed three times, waited 1 s and 2 s between
\* the attempts, and returned unknown
C33_Witness ==
    \E c \in UrlCalls :
        /\ urlCall[c].pc = "returned"
        /\ urlCall[c].verdict = "unknown"
        /\ urlCall[c].urls /\ urlCall[c].api_key
        /\ urlCall[c].slept = <<1, 2>>

\* C34: polling a sandbox job always terminates after at most 10 polls (one
\* wait of 30 s, then at most nine of 60 s); it returns the report at the
\* first poll whose state is SUCCESS, and if no poll succeeds the result is
\* normalized to verdict unknown, score 50, timed_out true.
C34_PollTerminates ==
    /\ [](/\ haPoll.polls \in 0..10
          /\ haPoll.waited = (IF haPoll.polls = 0 THEN 0 ELSE 30 + 60 * (haPoll.polls - 1))
          /\ haPoll.pc = "returned" =>
                IF haPoll.report = "timed_out"
                THEN /\ haPoll.polls = 10
                     /\ normalize_ha_report(haPoll.report) =
                            [verdict |-> "unknown", score |-> 50, timed_out |-> TRUE]
                ELSE ~normalize_ha_report(haPoll.report).timed_out)
    /\ [][haPoll.pc = "polling" =>
            \/ haPoll' = haPoll
            \/ haPoll'.polls = haPoll.polls + 1]_vars
    /\ <>[](haPoll.pc = "returned")

\* witness of C34: ten polls found no finished report, 570 s have passed and
\* the call returned without a report
C34_Witness ==
    /\ haPoll.pc = "returned"
    /\ haPoll.report = "timed_out"
    /\ haPoll.polls = 10
    /\ haPoll.waited = 570

(***************************************************************************)
(* Claims about the action worker's provider calls (SpecAction)            *)
(***************************************************************************)
\* the elements of a list
Range(seq) == {seq[i] : i \in DOMAIN seq}

\* C35: the worker adds the provider's spam label and removes the inbox
\* label for a message if and only if the final verdict is malicious and
\* the quarantine switch is on; otherwise only the brand label is added and
\* nothing is removed.
C35_SpamOnlyWhenMaliciousAndSwitch ==
    \A i \in DOMAIN labelCalls :
        LET call == labelCalls[i]
        IN  IF call.verdict = "malicious" /\ MOVE_MALICIOUS_TO_SPAM
            THEN /\ call.add_labels = <<call.label_name, "SPAM">>
                 /\ call.remove_labels = <<"INBOX">>
            ELSE /\ call.add_labels = <<call.label_name>>
                 /\ call.remove_labels = <<>>

\* witness of C35: with the switch on, a malicious message was moved to spam
\* and a message with another verdict only got its brand label
C35_Witness ==
    /\ MOVE_MALICIOUS_TO_SPAM
    /\ \E i, k \in DOMAIN labelCalls :
          /\ labelCalls[i].verdict = "malicious"
          /\ labelCalls[i].outcome = "ok"
          /\ "SPAM" \in Range(labelCalls[i].add_labels)
          /\ labelCalls[k].verdict # "malicious"
          /\ labelCalls[k].outcome = "ok"
          /\ labelCalls[k].remove_labels = <<>>

\* C36: if the label application failed for a job, the job is not treated
\* as done: a final report delivered again for the same message attempts
\* the label application again instead of being skipped as processed.
C36_FailedLabelIsRetried ==
    [][\A n \in Actions :
          (actionPc[n] = "new" /\ actionPc'[n] = "skipped")
              => LET calls == CallsFor(actionPayload'[n].message_id)
                 IN  (calls # {}) => \E i \in calls : labelCalls[i].outcome = "ok"]_vars

(***************************************************************************)
(* Claims about the provider semaphore (SpecActionPermits)                 *)
(***************************************************************************)
\* the calls of process_action that are inside apply_labels
InFlight == {n \in DOMAIN actionPc : actionPc[n] = "labelling"}

\* C37: at most 5 provider label-modification calls are in flight at any
\* time, whatever number of final reports is handled concurrently; every
\* label application runs holding a permit of the size-5 semaphore, and the
\* permit is released on success and on failure.
C37_AtMostFiveInFlight ==
    /\ Cardinality(InFlight) <= 5
    /\ gmailPermits + Cardinality(InFlight) = GMAIL_SEMAPHORE
    /\ gmailPermits \in 0..GMAIL_SEMAPHORE

\* witness of C37: five calls are in flight and hold all permits while a
\* sixth is waiting for one
C37_Witness ==
    /\ Cardinality(InFlight) = 5
    /\ gmailPermits = 0
    /\ \E n \in DOMAIN actionPc : actionPc[n] = "label"

(***************************************************************************)
(* Claims about the aggregator's reports and state lifetime (Spec,         *)
(* SpecReaper, SpecReaperFair)                                             *)
(***************************************************************************)
\* C38: every final-report published for a job whose control carried
\* requiresB=true has a non-null sandbox field equal to the payload of the
\* job's analysis-done, in every arrival order and also when the reaper or
\* a duplicate delivery intervenes.
C38_SandboxedReportHasSandbox ==
    \A i \in DOMAIN finalReports :
        jobInput[finalReports[i].job_id].requiresB
            => /\ finalReports[i].sandbox # JsonDumps(None)
               /\ finalReports[i].sandbox =
                      JsonDumps(SandboxDonePayload(finalReports[i].job_id))

\* C39: the reaper deletes a job state only if more than STATE_TTL seconds
\* have passed since the aggregator created that state, whatever created_at
\* value the producer put into the control message.
C39_ReaperSparesYoungState ==
    [][\A j \in Jobs :
          (lastOp'.kind = "cleanup" /\ jobState[j] # NoState /\ jobState'[j] = NoState)
              => now - stateBorn[j] > STATE_TTL]_vars

\* C40: every job state the aggregator creates is eventually deleted, by
\* finalization, by the reaper or by expiry of the key's TTL: once the
\* messages of a job stop arriving no job_state key for it stays forever,
\* also after a late control or a failed or aborted finalization.
C40_StateEventuallyDeleted ==
    \A j \in Jobs : (jobState[j] # NoState) ~> (jobState[j] = NoState)

\* witness of C40: the EmailEvent is missing, so the finalization that the
\* intent-done started was aborted and left the state; that state, dated an
\* hour ahead by the producer, is gone after its TTL
C40_Witness ==
    \E j \in Jobs :
        /\ ~emailRow[j].exists
        /\ receivedAt[j] > 0
        /\ delivered[j]["control"] >= 1
        /\ delivered[j]["intent_done"] >= 1
        /\ ~jobInput[j].requiresB
        /\ jobState[j] = NoState
        /\ now >= STATE_TTL

====
